---------------------------- MODULE Spec2Model ----------------------------
(***************************************************************************)
(* A model of backend/data_processor.py: the DataProcessor session object  *)
(* (original and working copies of the sales and claims tables, the merged *)
(* view, the change log and the query cache) and the operations on it.     *)
(*                                                                         *)
(* Conventions                                                             *)
(*  - a cell value is a record [k, n, s]: k is the kind ("num", "str",     *)
(*    "bool", "nan", "none"), n the number, s the text;                    *)
(*  - a DataFrame is [isNone, columns, rows]: columns is the ordered       *)
(*    column list, rows the ordered rows, each a function from the column  *)
(*    names to cell values; None is NoneDF;                                *)
(*  - money is kept in whole units, averages in hundredths (round(x, 2))   *)
(*    and rates in tenths of a percent (round(x, 1));                      *)
(*  - the timestamp of a change-log entry is a wall-clock reading and is   *)
(*    not kept.                                                            *)
(***************************************************************************)
EXTENDS Integers, Sequences, FiniteSets, TLC

VARIABLES
    original_sales_df,   \* self.original_sales_df
    original_claims_df,  \* self.original_claims_df
    sales_df,            \* self.sales_df      (working copy)
    claims_df,           \* self.claims_df     (working copy)
    merged_df,           \* self.merged_df
    change_log,          \* self.change_log
    query_cache,         \* self._query_cache: a function from cache keys to results
    metrics_dirty,       \* self._metrics_dirty
    last                 \* the call that returned last, and what it returned

vars == <<original_sales_df, original_claims_df, sales_df, claims_df,
          merged_df, change_log, query_cache, metrics_dirty, last>>

store == <<original_sales_df, original_claims_df, sales_df, claims_df,
           merged_df, change_log>>

-----------------------------------------------------------------------------
(* Bounds of the model.                                                    *)

\* The longest change log the model lets grow (update_cell is not taken beyond it).
MaxLog == 2

-----------------------------------------------------------------------------
(* Cell values.                                                            *)

Num(i) == [k |-> "num", n |-> i, s |-> ""]
Str(t) == [k |-> "str", n |-> 0, s |-> t]
Bool(b) == [k |-> "bool", n |-> IF b THEN 1 ELSE 0, s |-> ""]
NaN == [k |-> "nan", n |-> 0, s |-> ""]
NoneV == [k |-> "none", n |-> 0, s |-> ""]

\* pd.isna(v)
IsNa(v) == v.k \in {"nan", "none"}

\* v == w on cells: a missing value equals nothing, itself included.
ValEq(v, w) == ~IsNa(v) /\ ~IsNa(w) /\ v = w

\* The strings of the model in Python's string order (the order groupby and sorted use).
StrOrder == <<"7", "Approved", "Basic", "D1", "D2", "P1", "P2", "P3", "Pending",
              "Plus", "Rejected", "Reversed", "Test", "x">>

StrRank(t) == CHOOSE i \in 1..Len(StrOrder) : StrOrder[i] = t

\* v < w for two cells of one column (numbers by value, strings by Python's order).
ValLess(v, w) ==
    IF v.k = "num" /\ w.k = "num" THEN v.n < w.n
    ELSE IF v.k = "str" /\ w.k = "str" THEN StrRank(v.s) < StrRank(w.s)
    ELSE v.k = "num" /\ w.k = "str"

RECURSIVE SortedSeq(_)
\* sorted(S): the values of the finite set S in ascending order.
SortedSeq(S) ==
    IF S = {} THEN << >>
    ELSE LET m == CHOOSE x \in S : \A y \in S \ {x} : ValLess(x, y)
         IN  <<m>> \o SortedSeq(S \ {m})

-----------------------------------------------------------------------------
(* DataFrames.                                                             *)

NoneDF == [isNone |-> TRUE, columns |-> << >>, rows |-> << >>]

DF(cols, rws) == [isNone |-> FALSE, columns |-> cols, rows |-> rws]

Range(sq) == {sq[i] : i \in DOMAIN sq}

\* c in df.columns
HasCol(df, c) == c \in Range(df.columns)

RECURSIVE FindIn(_, _)
FindIn(cols, candidates) ==
    IF candidates = << >> THEN ""
    ELSE IF Head(candidates) \in cols THEN Head(candidates)
    ELSE FindIn(cols, Tail(candidates))

\* _find_column: the first candidate that is a column of df; "" stands for None.
FindColumn(df, candidates) == FindIn(Range(df.columns), candidates)

RECURSIVE SumSeq(_)
SumSeq(sq) == IF sq = << >> THEN 0 ELSE Head(sq) + SumSeq(Tail(sq))

\* Series.sum(): the sum of the numbers of a column, missing values skipped.
SumCol(rws, c) ==
    SumSeq([i \in DOMAIN rws |-> IF rws[i][c].k \in {"num", "bool"} THEN rws[i][c].n ELSE 0])

\* Series.count(): the number of non-missing cells of a column.
CountCol(rws, c) == Cardinality({i \in DOMAIN rws : ~IsNa(rws[i][c])})

\* Series.dropna().unique(): the distinct non-missing values of a column.
UniqueCol(rws, c) == {rws[i][c] : i \in {j \in DOMAIN rws : ~IsNa(rws[j][c])}}

\* A row extended (or overwritten) by the cells of more.
RowWith(row, more) == [c \in DOMAIN row \cup DOMAIN more |->
                         IF c \in DOMAIN more THEN more[c] ELSE row[c]]

\* The column list with the names of extra appended, those already present kept in place.
ColsWith(cols, extra) == cols \o SelectSeq(extra, LAMBDA c : c \notin Range(cols))


-----------------------------------------------------------------------------
(* The merge builder.                                                      *)

PolicyCandidates == <<"Policy No", "PolicyNo", "POLICY_NO", "Policy Number">>

\* The rows of rws whose cell in column c equals v, in order.
GroupRows(rws, c, v) == SelectSeq(rws, LAMBDA r : ValEq(r[c], v))

\* One aggregate of a group: the column's sum if the claims table has it, else the group's size.
SumOrSize(claims, grp, c) ==
    IF HasCol(claims, c) THEN Num(SumCol(grp, c)) ELSE Num(Len(grp))

\* claims_df.groupby(cp).agg(...).reset_index(): one row per distinct non-missing
\* policy id, in ascending order of the id.
\* The row of the aggregate for the group grp of policy id key.
AggRow(claims, cp, key, grp) ==
    (cp :> key) @@
    ("claim_count" :> Num(Len(grp))) @@
    ("total_claim_amount" :> SumOrSize(claims, grp, "Total Auth Amount")) @@
    ("total_labor" :> SumOrSize(claims, grp, "Labor")) @@
    ("total_parts" :> SumOrSize(claims, grp, "Parts"))

AggRows(claims, cp, keys) ==
    [i \in DOMAIN keys |-> AggRow(claims, cp, keys[i], GroupRows(claims.rows, cp, keys[i]))]

ClaimsAgg(claims, cp) == AggRows(claims, cp, SortedSeq(UniqueCol(claims.rows, cp)))

AggColumns(cp) == <<cp, "claim_count", "total_claim_amount", "total_labor", "total_parts">>

RECURSIVE Flatten(_)
Flatten(sqs) == IF sqs = << >> THEN << >> ELSE Head(sqs) \o Flatten(Tail(sqs))

\* The right rows whose key equals v.
MatchRows(right, rk, v) == SelectSeq(right, LAMBDA r : ValEq(r[rk], v))

\* The merged rows one left row gives: one per hit, or one with the right columns missing.
JoinRow(l, hits, rightCols, lk) ==
    IF hits = << >> THEN <<RowWith([c \in Range(rightCols) \ {lk} |-> NaN], l)>>
    ELSE [j \in DOMAIN hits |-> RowWith(hits[j], l)]

\* left.merge(right, left_on=lk, right_on=rk, how='left'): every left row in order,
\* once per right row with the same key, or once with the right columns missing.
LeftMerge(left, right, rightCols, lk, rk) ==
    Flatten([i \in DOMAIN left |-> JoinRow(left[i], MatchRows(right, rk, left[i][lk]), rightCols, lk)])

\* Series.fillna(0)
FillNa0(v) == IF IsNa(v) THEN Num(0) ELSE v

\* The column assignments without the fill of total_claim_amount.
FillMergedCountOnly(row) ==
    RowWith(row, ("has_claim" :> Bool(FillNa0(row["claim_count"]).n > 0)) @@
                 ("claim_count" :> FillNa0(row["claim_count"])))

\* The three column assignments that follow the merge (lines 88-90).
FillMerged(row) ==
    RowWith(row, ("has_claim" :> Bool(FillNa0(row["claim_count"]).n > 0)) @@
                 ("claim_count" :> FillNa0(row["claim_count"])) @@
                 ("total_claim_amount" :> FillNa0(row["total_claim_amount"])))

\* Constant columns with a missing claim count.
DegradedRowNoCount(row) ==
    RowWith(row, ("has_claim" :> Bool(FALSE)) @@ ("claim_count" :> NaN) @@
                 ("total_claim_amount" :> Num(0)))

\* The else branch: the sales rows with the three constant columns (lines 92-95).
DegradedRow(row) ==
    RowWith(row, ("has_claim" :> Bool(FALSE)) @@ ("claim_count" :> Num(0)) @@
                 ("total_claim_amount" :> Num(0)))

FillAll(m) == [i \in DOMAIN m |-> FillMerged(m[i])]

\* The two branches of _build_merged, for the resolved policy columns sp and cp
\* ("" is None).
MergedFor(sales, claims, sp, cp) ==
    IF sp # "" /\ cp # ""
    THEN DF(ColsWith(ColsWith(sales.columns, AggColumns(cp)), <<"has_claim">>),
            FillAll(LeftMerge(sales.rows, ClaimsAgg(claims, cp), AggColumns(cp), sp, cp)))
    ELSE DF(ColsWith(sales.columns, <<"has_claim", "claim_count", "total_claim_amount">>),
            [i \in DOMAIN sales.rows |-> DegradedRow(sales.rows[i])])

\* _build_merged: the value self.merged_df holds when the method returns; old is
\* the value it held before (kept when a table is None).
BuildMerged(sales, claims, old) ==
    IF sales.isNone \/ claims.isNone THEN old
    ELSE MergedFor(sales, claims, FindColumn(sales, PolicyCandidates),
                   FindColumn(claims, PolicyCandidates))

-----------------------------------------------------------------------------
(* Loading.                                                                *)

\* c.strip() on the column names that occur in the sheets of the model.
Strip(c) ==
    CASE c = "Dealer "      -> "Dealer"
      [] c = " Policy No"   -> "Policy No"
      [] OTHER              -> c

\* A sheet as pd.read_excel returns it: the header and the rows as cell tuples.
Sheet(header, cells) == [header |-> header, cells |-> cells]

StripAll(header) == [i \in DOMAIN header |-> Strip(header[i])]

\* The frame of a sheet: the named cells of each row, and '_row_id' = range(len(df))
\* inserted as the first column.
WithRowIds(cols, cells) ==
    DF(<<"_row_id">> \o cols,
       [i \in DOMAIN cells |->
          ("_row_id" :> Num(i - 1)) @@
          [c \in Range(cols) |-> cells[i][CHOOSE j \in DOMAIN cols : cols[j] = c]]])

\* The frame pd.read_excel returns for a sheet (line 41): the header as it is
\* in the sheet, and no '_row_id' yet.
AsRead(sheet) ==
    DF(sheet.header,
       [i \in DOMAIN sheet.cells |->
          [c \in Range(sheet.header) |->
             sheet.cells[i][CHOOSE j \in DOMAIN sheet.header : sheet.header[j] = c]]])

\* read_excel, the stripped column names, and the inserted '_row_id' (lines 41-50).
ReadSheet(sheet) == WithRowIds(StripAll(sheet.header), sheet.cells)

\* The workbooks load_excel is given in the model: a sales sheet and a claims sheet.
Workbooks ==
    { \* three policies, P1 with two claims summing to 150, P2 and P3 with none
      [sales  |-> Sheet(<<"Policy No", "Dealer ", "Gross Premium", "Risk Premium">>,
                        << <<Str("P1"), Str("D1"), Num(10), Num(4)>>,
                           <<Str("P2"), Str("D1"), Num(20), Num(8)>>,
                           <<Str("P3"), Str("D2"), Num(0),  Num(0)>> >>),
       claims |-> Sheet(<<"Policy No", "Total Auth Amount", "Claim Status">>,
                        << <<Str("P1"), Num(100), Str("Approved")>>,
                           <<Str("P1"), Num(50),  Str("Rejected")>> >>)],
      \* other column names for the policy id, a policy sold twice, no amount column
      [sales  |-> Sheet(<<"PolicyNo", "Gross Premium", "Risk Premium", "Year", "Month">>,
                        << <<Str("P1"), Num(5), Num(2), Num(2024), Num(1)>>,
                           <<Str("P1"), Num(7), Num(3), Num(2024), Num(2)>> >>),
       claims |-> Sheet(<<"Policy Number", "Labor">>,
                        << <<Str("P1"), Num(3)>>,
                           <<Str("P2"), NaN>> >>)],
      \* a sales sheet without a policy column
      [sales  |-> Sheet(<<"Dealer", "Gross Premium">>,
                        << <<Str("D1"), Num(10)>> >>),
       claims |-> Sheet(<<"Policy No", "Total Auth Amount">>,
                        << <<Str("P1"), Num(100)>> >>)],
      \* a claims sheet without a policy column
      [sales  |-> Sheet(<<"Policy No", "Gross Premium", "Risk Premium">>,
                        << <<Str("P1"), Num(10), Num(4)>>,
                           <<Str("P2"), Num(20), Num(8)>> >>),
       claims |-> Sheet(<<"Claim Status", "Total Auth Amount">>,
                        << <<Str("Approved"), Num(100)>> >>)] }

-----------------------------------------------------------------------------
(* The validator and the serializer.                                       *)

NumericCols(table) ==
    CASE table = "sales"  -> {"Gross Premium", "Risk Premium", "CC", "Cylinder",
                              "Start KM", "End KM", "Year", "Month"}
      [] table = "claims" -> {"Labor", "Parts", "Total Auth Amount", "Claim KM",
                              "CC", "Year", "Month"}
      [] OTHER            -> {}

ValidStatuses == {"Approved", "Rejected", "Reversed"}

\* The strings float() parses, with their values.
NumeralValue(t) == CASE t = "7" -> 7 [] OTHER -> 0
IsNumeral(t) == t \in {"7"}

\* float(value) raises ValueError (a string that is no numeral) or TypeError (None).
FloatRaises(v) == (v.k = "str" /\ ~IsNumeral(v.s)) \/ v.k = "none"

\* float(value) when it does not raise.
FloatOf(v) ==
    CASE v.k = "str"  -> Num(NumeralValue(v.s))
      [] v.k = "bool" -> Num(v.n)
      [] OTHER        -> v

Ok(v) == [value |-> v, error |-> ""]
Err(e) == [value |-> NoneV, error |-> e]

\* val < 0 (false of NaN)
Negative(val) == val.k = "num" /\ val.n < 0

\* The two range checks on the coerced value val (lines 692-696).
CheckRange(column, val) ==
    IF column \in {"Gross Premium", "Risk Premium"} /\ Negative(val) THEN Err("must be >= 0")
    ELSE IF column \in {"Total Auth Amount", "Labor", "Parts"} /\ Negative(val)
    THEN Err("must be >= 0")
    ELSE Ok(val)

\* _validate_value: the pair (validated value, error); error "" stands for None.
ValidateValue(table, column, value) ==
    IF column \in NumericCols(table)
    THEN IF FloatRaises(value) THEN Err("must be numeric")
         ELSE CheckRange(column, FloatOf(value))
    ELSE IF column = "Claim Status" /\ ~(value.k = "str" /\ value.s \in ValidStatuses)
    THEN Err("Claim Status must be one of")
    ELSE Ok(value)

\* _serialize: a missing value becomes None, every other value is kept.
Serialize(v) == IF IsNa(v) THEN NoneV ELSE v

-----------------------------------------------------------------------------
(* Filter specifications and the filter pipeline.                          *)

\* The filters argument: None, or a dict given as its (key, value) items in
\* insertion order.
FNone == [isNone |-> TRUE, items |-> << >>]
FDict(items) == [isNone |-> FALSE, items |-> items]

\* not filters
Falsy(filters) == filters.isNone \/ filters.items = << >>

\* filters or {}
OrEmpty(filters) == IF filters.isNone THEN FDict(<< >>) ELSE filters

HasKey(filters, key) == \E i \in DOMAIN filters.items : filters.items[i][1] = key

\* filters.get(key): the value, None when the key is absent.
Get(filters, key) ==
    IF HasKey(filters, key)
    THEN filters.items[CHOOSE i \in DOMAIN filters.items : filters.items[i][1] = key][2]
    ELSE NoneV

\* bool(v) of a filter value.
Truthy(v) ==
    CASE v.k = "none" -> FALSE
      [] v.k = "str"  -> v.s # ""
      [] v.k = "num"  -> v.n # 0
      [] v.k = "bool" -> v.n = 1
      [] OTHER        -> TRUE

\* filters.get(key) and filters[key] != 'All'
Active(filters, key) == Truthy(Get(filters, key)) /\ Get(filters, key) # Str("All")

\* int(v) raises on a string that is no numeral, on None and on NaN.
IntRaises(v) == (v.k = "str" /\ ~IsNumeral(v.s)) \/ IsNa(v)

\* int(v) when it does not raise.
IntOf(v) == IF v.k = "str" THEN Num(NumeralValue(v.s)) ELSE Num(v.n)

\* One equality step: df[df[col] == value] when col is a column ("" is None), else df.
FilterEq(df, col, value) ==
    IF col # "" /\ HasCol(df, col)
    THEN [df EXCEPT !.rows = SelectSeq(df.rows, LAMBDA r : ValEq(r[col], value))]
    ELSE df

\* The steps of _apply_filters, one per dimension.
ByDealer(df, filters) ==
    IF Active(filters, "dealer")
    THEN FilterEq(df, FindColumn(df, <<"Dealer", "Dealer AJA">>), Get(filters, "dealer"))
    ELSE df

ByProduct(df, filters) ==
    IF Active(filters, "product")
    THEN FilterEq(df, FindColumn(df, <<"Product", "Coverage">>), Get(filters, "product"))
    ELSE df

ByYear(df, filters) ==
    IF Active(filters, "year") /\ HasCol(df, "Year")
    THEN FilterEq(df, "Year", IntOf(Get(filters, "year")))
    ELSE df

ByMonth(df, filters) ==
    IF Active(filters, "month") /\ HasCol(df, "Month")
    THEN FilterEq(df, "Month", IntOf(Get(filters, "month")))
    ELSE df

ByMake(df, filters) ==
    IF Active(filters, "make") THEN FilterEq(df, "Make", Get(filters, "make")) ELSE df

ByClaimStatus(df, filters) ==
    IF Active(filters, "claim_status")
    THEN FilterEq(df, "Claim Status", Get(filters, "claim_status"))
    ELSE df

\* The date strings of the model, in the order of the days they name.
DateStrings == <<"2024-01-15", "2024-02-15", "2024-03-15">>

\* v is a date: pd.to_datetime gives it a day.
IsDate(v) == v.k = "str" /\ \E i \in DOMAIN DateStrings : DateStrings[i] = v.s

\* The strings pd.to_datetime reads as the missing date NaT.
NatStrings == {"NaT", "nan"}

\* pd.to_datetime(v) is NaT: a missing value or one of the strings that name it.
IsNaT(v) == IsNa(v) \/ (v.k = "str" /\ v.s \in NatStrings)

\* pd.to_datetime(v) raises: a string that names no date.
ToDatetimeRaises(v) == v.k = "str" /\ ~IsDate(v) /\ ~IsNaT(v)

\* The day of pd.to_datetime(v) when v is a date; a number counts from 1970.
DayOf(v) == IF IsDate(v) THEN CHOOSE i \in DOMAIN DateStrings : DateStrings[i] = v.s ELSE 0

\* pd.to_datetime(df[col]) raises: some cell of the column does.
ColumnRaises(df, col) == \E i \in DOMAIN df.rows : ToDatetimeRaises(df.rows[i][col])

\* A date step that answers a pd.to_datetime that raises with no rows.
DateStepClosed(df, col, bound, from) ==
    IF ToDatetimeRaises(bound) \/ ColumnRaises(df, col) THEN [df EXCEPT !.rows = << >>]
    ELSE [df EXCEPT !.rows = SelectSeq(df.rows, LAMBDA r :
             /\ ~IsNaT(r[col]) /\ ~IsNaT(bound)
             /\ IF from THEN DayOf(r[col]) >= DayOf(bound)
                        ELSE DayOf(r[col]) <= DayOf(bound))]

\* The try block of a date step (lines 134-137, 142-145): the rows whose day
\* is on the right side of the bound's; a comparison with NaT is false; when
\* pd.to_datetime raises, on the bound or on the column, the frame as it is.
DateStep(df, col, bound, from) ==
    IF ToDatetimeRaises(bound) \/ ColumnRaises(df, col) THEN df
    ELSE [df EXCEPT !.rows = SelectSeq(df.rows, LAMBDA r :
             /\ ~IsNaT(r[col]) /\ ~IsNaT(bound)
             /\ IF from THEN DayOf(r[col]) >= DayOf(bound)
                        ELSE DayOf(r[col]) <= DayOf(bound))]

DateCandidates == <<"Policy Sold Date", "Failure Date">>

ByDateFrom(df, filters) ==
    IF Truthy(Get(filters, "date_from")) /\ FindColumn(df, DateCandidates) # ""
    THEN DateStep(df, FindColumn(df, DateCandidates), Get(filters, "date_from"), TRUE)
    ELSE df

ByDateTo(df, filters) ==
    IF Truthy(Get(filters, "date_to")) /\ FindColumn(df, DateCandidates) # ""
    THEN DateStep(df, FindColumn(df, DateCandidates), Get(filters, "date_to"), FALSE)
    ELSE df

\* t.lower() as characters, for the strings of the model.
LowerChars(t) ==
    CASE t \in {"D1", "d1"}  -> <<"d", "1">>
      [] t = "D2"            -> <<"d", "2">>
      [] t = "P1"            -> <<"p", "1">>
      [] t = "P2"            -> <<"p", "2">>
      [] t = "P3"            -> <<"p", "3">>
      [] t \in {"Approved", "APPROVED"} -> <<"a", "p", "p", "r", "o", "v", "e", "d">>
      [] t = "Rejected"      -> <<"r", "e", "j", "e", "c", "t", "e", "d">>
      [] t = "Pending"       -> <<"p", "e", "n", "d", "i", "n", "g">>
      [] t = "Test"          -> <<"t", "e", "s", "t">>
      [] t = "Basic"         -> <<"b", "a", "s", "i", "c">>
      [] t = "Plus"          -> <<"p", "l", "u", "s">>
      [] t = "garbage"       -> <<"g", "a", "r", "b", "a", "g", "e">>
      [] t = "2024-01-15"    -> <<"2", "0", "2", "4", "-", "0", "1", "-", "1", "5">>
      [] t = "2024-02-15"    -> <<"2", "0", "2", "4", "-", "0", "2", "-", "1", "5">>
      [] t = "2024-03-15"    -> <<"2", "0", "2", "4", "-", "0", "3", "-", "1", "5">>
      [] t = "false"         -> <<"f", "a", "l", "s", "e">>
      [] t = "true"          -> <<"t", "r", "u", "e">>
      [] t = "10"            -> <<"1", "0">>
      [] t = "nan"           -> <<"n", "a", "n">>
      [] t = "none"          -> <<"n", "o", "n", "e">>
      [] OTHER               -> <<t>>

Digit == <<"0", "1", "2", "3", "4", "5", "6", "7", "8", "9">>

RECURSIVE DigitsOf(_)
\* str(n) of a natural number, as characters.
DigitsOf(n) == IF n < 10 THEN <<Digit[n + 1]>> ELSE DigitsOf(n \div 10) \o <<Digit[(n % 10) + 1]>>

\* str(v).lower() of a cell, as characters.
TextOf(v) ==
    CASE v.k = "str"  -> LowerChars(v.s)
      [] v.k = "num"  -> IF v.n < 0 THEN <<"-">> \o DigitsOf(0 - v.n) ELSE DigitsOf(v.n)
      [] v.k = "bool" -> LowerChars(IF v.n = 1 THEN "true" ELSE "false")
      [] v.k = "nan"  -> LowerChars("nan")
      [] OTHER        -> LowerChars("none")

\* term in text
Contains(text, term) ==
    \E i \in 0..(Len(text) - Len(term)) : SubSeq(text, i + 1, i + Len(term)) = term

\* any(search in str(v).lower() for v in row)
RowContains(r, term) == \E c \in DOMAIN r : Contains(TextOf(r[c]), term)

\* Lines 147-150: the rows one of whose cells contains the term, whatever the case.
BySearch(df, filters) ==
    IF Truthy(Get(filters, "search"))
    THEN [df EXCEPT !.rows = SelectSeq(df.rows, LAMBDA r :
             RowContains(r, LowerChars(Get(filters, "search").s)))]
    ELSE df

\* _apply_filters: the steps in the code's order.
ApplyFilters(df, filters) ==
    ByClaimStatus(BySearch(ByDateTo(ByDateFrom(
        ByMake(ByMonth(ByYear(ByProduct(ByDealer(df, filters), filters), filters), filters),
               filters), filters), filters), filters), filters)

\* _apply_filters raises: int() of a year or month that is no number, or
\* .lower() of a search term that is no string.
FilterRaises(df, filters) ==
    \/ Active(filters, "year") /\ HasCol(df, "Year") /\ IntRaises(Get(filters, "year"))
    \/ Active(filters, "month") /\ HasCol(df, "Month") /\ IntRaises(Get(filters, "month"))
    \/ Truthy(Get(filters, "search")) /\ Get(filters, "search").k # "str"

-----------------------------------------------------------------------------
(* The query cache.                                                        *)

\* The filter keys in Python's string order.
KeyOrder == <<"claim_status", "date_from", "date_to", "dealer", "make", "month",
              "product", "search", "year">>

KeyRank(key) == CHOOSE i \in 1..Len(KeyOrder) : KeyOrder[i] = key

RECURSIVE SortItems(_)
\* sorted(filters.items(), key=lambda x: x[0])
SortItems(items) ==
    IF items = << >> THEN << >>
    ELSE LET i == CHOOSE a \in DOMAIN items :
                     \A b \in DOMAIN items : KeyRank(items[a][1]) <= KeyRank(items[b][1])
         IN  <<items[i]>> \o SortItems(SelectSeq(items, LAMBDA it : it # items[i]))

\* A key made of the method name alone.
GetCacheKeyNameOnly(method_name, filters) ==
    [method |-> method_name, none |-> TRUE, items |-> << >>]

\* _get_cache_key
GetCacheKey(method_name, filters) ==
    IF Falsy(filters)
    THEN [method |-> method_name, none |-> TRUE, items |-> << >>]
    ELSE [method |-> method_name, none |-> FALSE, items |-> SortItems(filters.items)]

EmptyCache == [key \in {} |-> 0]

Cached(key) == key \in DOMAIN query_cache

-----------------------------------------------------------------------------
(* The aggregations.  Each Compute operator is the body of the method      *)
(* after its cache lookup: out says how the call ended ("noData": the      *)
(* early return on an unloaded session; "unstored": a return after the     *)
(* filter step that stores nothing; "stored": the result is put in the     *)
(* cache; "raised": an exception leaves the method), ret is the value      *)
(* returned.                                                               *)

Outcome(out, ret) == [out |-> out, ret |-> ret]

\* round(a / b, d) as a whole number of 10^-d units, for b > 0 and a already scaled
\* (halves round up; Python rounds an exact half to the even digit).
RoundDiv(a, b) == (2 * a + b) \div (2 * b)

\* A guard against a zero denominator only.
GuardedNonZero(num, den) == IF den # 0 THEN RoundDiv(num, den) ELSE 0

\* x if den > 0 else 0, for the quotient num / den rounded.
Guarded(num, den) == IF den > 0 THEN RoundDiv(num, den) ELSE 0

\* A column's sum if the frame has the column, else 0.
SumIfCol(df, c) == IF HasCol(df, c) THEN SumCol(df.rows, c) ELSE 0

\* The dict get_summary builds from its locals (lines 197-214).
SummaryDict(total_premium, total_risk_premium, total_claims_amount, total_policies, total_claims, policies_with_claims, unique_makes) ==
    [totalPremium |-> total_premium,
     totalRiskPremium |-> total_risk_premium,
     totalClaimsAmount |-> total_claims_amount,
     totalPolicies |-> total_policies,
     totalClaims |-> total_claims,
     claimRate |-> Guarded(policies_with_claims * 1000, total_policies),
     lossRatio |-> Guarded(total_claims_amount * 1000, total_premium),
     avgClaimCost |-> Guarded(total_claims_amount * 100, total_claims),
     avgPremium |-> Guarded(total_premium * 100, total_policies),
     policiesWithClaims |-> policies_with_claims,
     uniqueMakes |-> unique_makes]

\* The dict returned by get_summary (lines 186-214), from the three filtered frames.
Summary(sales, claims, merged_filtered) ==
    SummaryDict(SumIfCol(sales, "Gross Premium"), SumIfCol(sales, "Risk Premium"),
                SumIfCol(claims, "Total Auth Amount"), Len(sales.rows), Len(claims.rows),
                IF merged_filtered.isNone THEN 0 ELSE SumCol(merged_filtered.rows, "has_claim"),
                IF HasCol(sales, "Make") THEN Cardinality(UniqueCol(sales.rows, "Make")) ELSE 0)

\* get_summary after the cache lookup, on the given session tables.
ComputeSummary(sales, claims, merged, filters) ==
    IF sales.isNone THEN Outcome("noData", << >>)
    ELSE IF claims.isNone \/ FilterRaises(sales, OrEmpty(filters))
    THEN Outcome("raised", << >>)
    ELSE Outcome("stored",
                 Summary(ApplyFilters(sales, OrEmpty(filters)),
                         ApplyFilters(claims, OrEmpty(filters)),
                         IF merged.isNone THEN merged ELSE ApplyFilters(merged, OrEmpty(filters))))

\* str(month).zfill(2) as its two digits, for a whole month number below 100.
ZFill2(m) == <<m \div 10, m % 10>>

\* One record of get_sales_monthly: the group grp of year y and month m.
MonthlyRecord(df, y, m, grp) ==
    [Year |-> y.n, Month |-> m.n,
     premium |-> SumCol(grp, "Gross Premium"),
     riskPremium |-> SumCol(grp, "Risk Premium"),
     policies |-> IF HasCol(df, "Policy No") THEN CountCol(grp, "Policy No")
                  ELSE CountCol(grp, "Year"),
     period |-> <<y.n, "-", ZFill2(m.n)>>]

\* The records of one year, by ascending month.
MonthsOf(df, y, inYear, months) ==
    [j \in DOMAIN months |-> MonthlyRecord(df, y, months[j], GroupRows(inYear, "Month", months[j]))]

YearRecords(df, y, inYear) == MonthsOf(df, y, inYear, SortedSeq(UniqueCol(inYear, "Month")))

\* groupby(['Year', 'Month']) ... sort_values(['Year', 'Month']) on the filtered frame.
MonthlyRecords(df, years) ==
    Flatten([i \in DOMAIN years |-> YearRecords(df, years[i], GroupRows(df.rows, "Year", years[i]))])

\* get_sales_monthly on the filtered frame df (lines 281-295).
SalesMonthlyOf(df) ==
    IF ~HasCol(df, "Year") \/ ~HasCol(df, "Month") THEN Outcome("unstored", << >>)
    ELSE IF ~HasCol(df, "Gross Premium") \/ ~HasCol(df, "Risk Premium")
    THEN Outcome("raised", << >>)
    ELSE Outcome("stored", MonthlyRecords(df, SortedSeq(UniqueCol(df.rows, "Year"))))

\* get_sales_monthly after the cache lookup.
ComputeSalesMonthly(sales, filters) ==
    IF sales.isNone THEN Outcome("noData", << >>)
    ELSE IF FilterRaises(sales, OrEmpty(filters)) THEN Outcome("raised", << >>)
    ELSE SalesMonthlyOf(ApplyFilters(sales, OrEmpty(filters)))

\* One record of get_sales_dealers without the claim columns (lines 312-317).
DealerRecord(df, dealer_col, d, grp) ==
    [dealer |-> d,
     premium |-> SumCol(grp, "Gross Premium"),
     riskPremium |-> SumCol(grp, "Risk Premium"),
     policies |-> IF HasCol(df, "Policy No") THEN CountCol(grp, "Policy No")
                  ELSE CountCol(grp, dealer_col)]

\* The claim columns joined to a record g from the dealer's rows mg of the
\* filtered merged view (lines 321-333); rates in tenths of a percent.
WithClaims(g, claimsCount, totalClaimAmount) ==
    [dealer |-> g.dealer, premium |-> g.premium, riskPremium |-> g.riskPremium,
     policies |-> g.policies,
     claimsCount |-> claimsCount,
     totalClaimAmount |-> totalClaimAmount,
     lossRatio |-> Guarded(totalClaimAmount * 1000, g.premium),
     claimRate |-> Guarded(claimsCount * 1000, g.policies)]

DealerWithClaims(g, mg) == WithClaims(g, SumCol(mg, "has_claim"), SumCol(mg, "total_claim_amount"))

\* The records of get_sales_dealers, by ascending dealer.
DealerRecords(df, merged_f, dealer_col, dealers) ==
    [i \in DOMAIN dealers |->
       IF merged_f.isNone
       THEN DealerRecord(df, dealer_col, dealers[i], GroupRows(df.rows, dealer_col, dealers[i]))
       ELSE DealerWithClaims(
                DealerRecord(df, dealer_col, dealers[i], GroupRows(df.rows, dealer_col, dealers[i])),
                GroupRows(merged_f.rows, dealer_col, dealers[i]))]

\* get_sales_dealers on the filtered frame df and the filtered merged view
\* (lines 308-337).
SalesDealersOf(df, merged_f, dealer_col) ==
    IF dealer_col = "" THEN Outcome("unstored", << >>)
    ELSE IF ~HasCol(df, "Gross Premium") \/ ~HasCol(df, "Risk Premium")
    THEN Outcome("raised", << >>)
    ELSE Outcome("stored",
                 DealerRecords(df, merged_f, dealer_col,
                               SortedSeq(UniqueCol(df.rows, dealer_col))))

\* get_sales_dealers after the cache lookup.
ComputeSalesDealers(sales, merged, filters) ==
    IF sales.isNone THEN Outcome("noData", << >>)
    ELSE IF FilterRaises(sales, OrEmpty(filters)) THEN Outcome("raised", << >>)
    ELSE SalesDealersOf(ApplyFilters(sales, OrEmpty(filters)),
                        IF merged.isNone THEN merged ELSE ApplyFilters(merged, OrEmpty(filters)),
                        FindColumn(sales, <<"Dealer">>))

\* One record of get_sales_products: the group grp of one product (lines 353-358).
ProductRecord(df, prod_col, product, grp) ==
    [product |-> product,
     premium |-> SumCol(grp, "Gross Premium"),
     riskPremium |-> SumCol(grp, "Risk Premium"),
     count |-> CountCol(grp, IF HasCol(df, "Policy No") THEN "Policy No" ELSE prod_col)]

\* get_sales_products on the filtered frame df (lines 349-363): one record per
\* product, by ascending product.
SalesProductsOf(df, prod_col, products) ==
    IF prod_col = "" THEN Outcome("unstored", << >>)
    ELSE IF ~HasCol(df, "Gross Premium") \/ ~HasCol(df, "Risk Premium")
    THEN Outcome("raised", << >>)
    ELSE Outcome("stored",
                 [i \in DOMAIN products |->
                    ProductRecord(df, prod_col, products[i],
                                  GroupRows(df.rows, prod_col, products[i]))])

\* get_sales_products after the cache lookup.
ComputeSalesProducts(sales, filters) ==
    IF sales.isNone THEN Outcome("noData", << >>)
    ELSE IF FilterRaises(sales, OrEmpty(filters)) THEN Outcome("raised", << >>)
    ELSE SalesProductsOf(ApplyFilters(sales, OrEmpty(filters)),
                         FindColumn(sales, <<"Product", "Coverage">>),
                         IF FindColumn(sales, <<"Product", "Coverage">>) = "" THEN << >>
                         ELSE SortedSeq(UniqueCol(ApplyFilters(sales, OrEmpty(filters)).rows,
                                                  FindColumn(sales, <<"Product", "Coverage">>))))

\* The options of get_filter_options that come from the sales table, and from the
\* claims table, each with its column.
SalesOptions == {<<"dealers", "Dealer">>, <<"products", "Product">>, <<"years", "Year">>,
                 <<"months", "Month">>, <<"makes", "Make">>, <<"countries", "Country Name">>,
                 <<"coverages", "Coverage">>, <<"vehicleTypes", "Vehicle Type">>,
                 <<"bodyTypes", "Body Type">>}
ClaimsOptions == {<<"claimStatuses", "Claim Status">>, <<"partTypes", "Part Type">>}

\* The options for the listed columns that are present: the sorted distinct
\* non-missing values of each.
PresentOptions(df, present) ==
    [name \in {o[1] : o \in present} |->
       SortedSeq(UniqueCol(df.rows, (CHOOSE o \in present : o[1] = name)[2]))]

OptionsOf(df, listed) == PresentOptions(df, {o \in listed : HasCol(df, o[2])})

\* get_filter_options (it has no cache lookup and stores nothing); the sheets of
\* the model have no date column, so minDate and maxDate are never set.
ComputeFilterOptions(sales, claims) ==
    IF sales.isNone THEN Outcome("noData", << >>)
    ELSE Outcome("unstored",
                 OptionsOf(sales, SalesOptions) @@
                 (IF claims.isNone THEN OptionsOf(sales, {}) ELSE OptionsOf(claims, ClaimsOptions)))

\* The method body selected by name, on the given session tables.
Compute(method_name, sales, claims, merged, filters) ==
    CASE method_name = "get_summary"       -> ComputeSummary(sales, claims, merged, filters)
      [] method_name = "get_sales_monthly" -> ComputeSalesMonthly(sales, filters)
      [] method_name = "get_sales_dealers" -> ComputeSalesDealers(sales, merged, filters)
      [] method_name = "get_sales_products" -> ComputeSalesProducts(sales, filters)
      [] method_name = "get_filter_options" -> ComputeFilterOptions(sales, claims)

\* Row j comes before row i in df.sort_values(by, ascending=ascending): by the
\* cells of column by, missing values last, rows with equal cells in frame order.
Precedes(rws, by, ascending, j, i) ==
    IF IsNa(rws[j][by]) \/ IsNa(rws[i][by])
    THEN (~IsNa(rws[j][by]) /\ IsNa(rws[i][by])) \/ (IsNa(rws[j][by]) /\ IsNa(rws[i][by]) /\ j < i)
    ELSE IF ValLess(rws[j][by], rws[i][by]) THEN ascending
    ELSE IF ValLess(rws[i][by], rws[j][by]) THEN ~ascending
    ELSE j < i

\* Lines 599-600: the frame sorted when sort_by names a column ("" is None), else as it is.
SortValues(df, sort_by, sort_dir) ==
    IF sort_by # "" /\ HasCol(df, sort_by)
    THEN [df EXCEPT !.rows = [k \in DOMAIN df.rows |->
             df.rows[CHOOSE i \in DOMAIN df.rows :
                 Cardinality({j \in DOMAIN df.rows :
                     Precedes(df.rows, sort_by, sort_dir = "asc", j, i)}) = k - 1]]]
    ELSE df

\* A page count rounded down.
PagesFloor(total, limit) == IF total \div limit > 1 THEN total \div limit ELSE 1

\* max(1, (total + limit - 1) // limit)
Pages(total, limit) ==
    IF (total + limit - 1) \div limit > 1 THEN (total + limit - 1) \div limit ELSE 1

\* max(1, min(page, pages))
ClampPage(page, pages) ==
    IF page > pages THEN pages ELSE IF page < 1 THEN 1 ELSE page

\* Lines 602-624 on the filtered and sorted frame df, for the page count and
\* the clamped page number: the dict returned.  The records keep '_row_id';
\* the list of columns does not.
RawPage(df, pages, page, limit) ==
    [rows |-> SubSeq(df.rows, (page - 1) * limit + 1,
                     IF page * limit < Len(df.rows) THEN page * limit ELSE Len(df.rows)),
     columns |-> SelectSeq(df.columns, LAMBDA c : c # "_row_id"),
     total |-> Len(df.rows), page |-> page, pages |-> pages, limit |-> limit]

\* get_raw_data after the choice of the frame (lines 592-624): df is the frame
\* of the table named, None for a name that is neither 'sales' nor 'claims';
\* q the arguments.
RawData(df, q) ==
    IF df.isNone
    THEN Outcome("noData", [rows |-> << >>, total |-> 0, page |-> 1, pages |-> 0])
    ELSE IF FilterRaises(df, OrEmpty(q.filters))
    THEN Outcome("raised", << >>)
    ELSE Outcome("returned",
                 RawPage(SortValues(ApplyFilters(df, OrEmpty(q.filters)), q.sort_by, q.sort_dir),
                         Pages(Len(ApplyFilters(df, OrEmpty(q.filters)).rows), q.limit),
                         ClampPage(q.page, Pages(Len(ApplyFilters(df, OrEmpty(q.filters)).rows),
                                                 q.limit)),
                         q.limit))

\* The methods that look their key up in the query cache first.
CachedMethods == {"get_summary", "get_sales_monthly", "get_sales_dealers", "get_sales_products"}

-----------------------------------------------------------------------------
(* Inline editing.  A session is the part of the object update_cell works  *)
(* on: [sales, claims, merged, log, cache, dirty].                         *)

Session(sales, claims, merged, log, cache, dirty) ==
    [sales |-> sales, claims |-> claims, merged |-> merged, log |-> log,
     cache |-> cache, dirty |-> dirty]

Current == Session(sales_df, claims_df, merged_df, change_log, query_cache, metrics_dirty)

Success(old, new) == [success |-> TRUE, error |-> "", old_value |-> old, new_value |-> new]
Failure(e) == [success |-> FALSE, error |-> e, old_value |-> NoneV, new_value |-> NoneV]

\* df = self.sales_df if table == 'sales' else self.claims_df
TargetIsSales(table) == table = "sales"

\* mask = df['_row_id'] == row_id, as the positions it selects.
RowMask(df, row_id) == {i \in DOMAIN df.rows : ValEq(df.rows[i]["_row_id"], Num(row_id))}

\* An assignment to the whole column, whatever the mask.
SetColumn(df, mask, column, value) ==
    [df EXCEPT !.rows = [i \in DOMAIN df.rows |-> [df.rows[i] EXCEPT ![column] = value]]]

\* df.loc[mask, column] = value
SetCells(df, mask, column, value) ==
    [df EXCEPT !.rows = [i \in DOMAIN df.rows |->
                           IF i \in mask THEN [df.rows[i] EXCEPT ![column] = value]
                           ELSE df.rows[i]]]

\* An entry with the old and the new value in each other's place.
LogEntrySwapped(table, row_id, column, old, new) ==
    [table |-> table, row_id |-> row_id, column |-> column,
     old_value |-> Serialize(new), new_value |-> Serialize(old)]

\* The entry update_cell appends (without its timestamp).
LogEntry(table, row_id, column, old, new) ==
    [table |-> table, row_id |-> row_id, column |-> column,
     old_value |-> Serialize(old), new_value |-> Serialize(new)]

\* A clear_cache that clears nothing.
ClearedCacheKept(cache) == cache

\* clear_cache: the value of self._query_cache afterwards.
ClearedCache(cache) == EmptyCache

\* df.loc[mask, column] = validated_value on the frame df when it is the one the
\* call aims at, else df as it is.
WriteCell(df, aimed, row_id, column, validated) ==
    IF aimed THEN SetCells(df, RowMask(df, row_id), column, validated) ELSE df

\* An accepted edit that leaves the merged view as it was.
RecomputedStale(S, sales, claims, entry) ==
    Session(sales, claims, S.merged, Append(S.log, entry), ClearedCache(S.cache), TRUE)

\* What follows the write: clear_cache, the appended entry, _build_merged
\* (lines 654-669), for the tables as written.
Recomputed(S, sales, claims, entry) ==
    Session(sales, claims, BuildMerged(sales, claims, S.merged), Append(S.log, entry),
            ClearedCache(S.cache), TRUE)

\* The accepted path of update_cell (lines 651-671) on session S.
AcceptUpdate(S, table, row_id, column, old, validated) ==
    [s |-> Recomputed(S, WriteCell(S.sales, TargetIsSales(table), row_id, column, validated),
                      WriteCell(S.claims, ~TargetIsSales(table), row_id, column, validated),
                      LogEntry(table, row_id, column, old, validated)),
     res |-> Success(Serialize(old), Serialize(validated))]

\* A rejection that has cleared the cache first.
RejectUpdateCleared(S, e) == [s |-> [S EXCEPT !.cache = EmptyCache], res |-> Failure(e)]

\* The rejected paths of update_cell: the session as it is and the failure.
RejectUpdate(S, e) == [s |-> S, res |-> Failure(e)]

\* df['_row_id'] on a frame without that column raises KeyError (line 640);
\* the exception stands in the place of the result.
KeyError == "KeyError: '_row_id'"
Raised(res) == res.error = KeyError

\* update_cell on session S: the session afterwards and the dict returned.
\* df.loc[mask, column].values[0]
FirstValue(df, mask, column) == df.rows[CHOOSE i \in mask : \A j \in mask : i <= j][column]

\* Lines 646-671: the validator's verdict v decides.
Validated(S, table, row_id, column, old_value, v) ==
    IF v.error # "" THEN RejectUpdate(S, v.error)
    ELSE AcceptUpdate(S, table, row_id, column, old_value, v.value)

\* A check that lets every column be edited.
ImmutableNone(column) == FALSE

\* if column == '_row_id' (line 637)
Immutable(column) == column = "_row_id"

\* Lines 631-649 on the frame df the call aims at.
UpdateCellIn(S, df, table, row_id, column, new_value) ==
    IF df.isNone THEN RejectUpdate(S, "No data loaded")
    ELSE IF ~HasCol(df, column) THEN RejectUpdate(S, "Column not found")
    ELSE IF Immutable(column) THEN RejectUpdate(S, "Cannot edit row ID")
    ELSE IF ~HasCol(df, "_row_id") THEN RejectUpdate(S, KeyError)
    ELSE IF RowMask(df, row_id) = {} THEN RejectUpdate(S, "Row not found")
    ELSE Validated(S, table, row_id, column, FirstValue(df, RowMask(df, row_id), column),
                   ValidateValue(table, column, new_value))

\* update_cell on session S: the session afterwards and the dict returned.
UpdateCellOn(S, table, row_id, column, new_value) ==
    UpdateCellIn(S, IF TargetIsSales(table) THEN S.sales ELSE S.claims,
                 table, row_id, column, new_value)

\* results.append(r), for the results of the entries that follow.
Collect(one, rest) == [s |-> rest.s, results |-> <<one.res>> \o rest.results]

RECURSIVE BulkUpdateOn(_, _, _)
RECURSIVE BulkRest(_, _, _)

\* A loop that ends at the first failing entry.
BulkRestStopAtFailure(one, table, updates) ==
    IF one.res.success THEN Collect(one, BulkUpdateOn(one.s, table, updates))
    ELSE [s |-> one.s, results |-> <<one.res>>]

\* The loop of bulk_update after the entry whose call returned one; a call
\* that raised ends the loop.
BulkRest(one, table, updates) ==
    IF Raised(one.res) THEN [s |-> one.s, results |-> <<one.res>>]
    ELSE Collect(one, BulkUpdateOn(one.s, table, updates))

\* bulk_update on session S: update_cell once per entry, in order; the session
\* afterwards and the list of results.
BulkUpdateOn(S, table, updates) ==
    IF updates = << >> THEN [s |-> S, results |-> << >>]
    ELSE BulkRest(UpdateCellOn(S, table, Head(updates).row_id, Head(updates).column,
                               Head(updates).new_value),
                  table, Tail(updates))

-----------------------------------------------------------------------------
(* The calls the model makes.                                              *)

Edit(row_id, column, new_value) == [row_id |-> row_id, column |-> column, new_value |-> new_value]

\* The update_cell calls: each path of the method on a sheet that has the column,
\* and the paths through a missing column on the sheets that do not.
UpdateRequests ==
    { <<"sales",  Edit(1, "Gross Premium", Str("7"))>>,       \* a numeral, coerced
      <<"sales",  Edit(0, "Gross Premium", Num(-5))>>,        \* negative premium
      <<"sales",  Edit(0, "Risk Premium", Str("x"))>>,        \* not numeric
      <<"sales",  Edit(0, "Dealer", Str("Test"))>>,           \* verify_cache.py line 35
      <<"sales",  Edit(3, "Gross Premium", Num(7))>>,         \* no such row
      <<"claims", Edit(1, "Policy No", Str("P2"))>>,          \* moves a claim
      <<"claims", Edit(0, "Total Auth Amount", Num(7))>>,
      <<"claims", Edit(0, "Claim Status", Str("Pending"))>>,  \* not a legal status
      <<"claims", Edit(1, "Labor", Num(7))>>,
      <<"claims", Edit(0, "_row_id", Num(7))>>,               \* the row id
      <<"claims", Edit(0, "Nope", Num(7))>>,                  \* no such column
      <<"other",  Edit(0, "Total Auth Amount", Num(-5))>> }   \* neither table name

\* The bulk_update calls: a table name and its list of edits (the empty list, an
\* accepted edit before and after a rejected one, two accepted edits, one edit
\* under a name that is neither table's).
BulkRequests ==
    { <<"sales",  << >> >>,
      <<"sales",  <<Edit(1, "Gross Premium", Str("7")), Edit(0, "Gross Premium", Num(-5))>> >>,
      <<"sales",  <<Edit(0, "Gross Premium", Num(-5)), Edit(0, "Dealer", Str("Test"))>> >>,
      <<"claims", <<Edit(0, "Total Auth Amount", Num(7)), Edit(1, "Policy No", Str("P2"))>> >>,
      <<"claims", <<Edit(0, "Claim Status", Str("Pending"))>> >>,
      <<"other",  <<Edit(0, "Total Auth Amount", Num(-5))>> >> }

\* The read calls: a method and its filters argument.
ReadRequests ==
    { <<"get_summary", FNone>>,
      <<"get_summary", FDict(<< >>)>>,
      <<"get_summary", FDict(<< <<"dealer", Str("D1")>> >>)>>,
      <<"get_sales_dealers", FDict(<< <<"dealer", Str("All")>> >>)>>,
      <<"get_sales_monthly", FNone>>,
      <<"get_filter_options", FNone>> }

-----------------------------------------------------------------------------
(* The state machine.                                                      *)

Called(op, arg, out, ret) == [op |-> op, arg |-> arg, out |-> out, ret |-> ret]

Init ==
    /\ original_sales_df = NoneDF
    /\ original_claims_df = NoneDF
    /\ sales_df = NoneDF
    /\ claims_df = NoneDF
    /\ merged_df = NoneDF
    /\ change_log = << >>
    /\ query_cache = EmptyCache
    /\ metrics_dirty = TRUE
    /\ last = Called("__init__", << >>, "", << >>)

\* df.copy(): a frame with the same cells.
CopyOf(df) == df

\* load_excel on a workbook that is read without error.
LoadExcel(wb) ==
    /\ original_sales_df' = ReadSheet(wb.sales)
    /\ original_claims_df' = ReadSheet(wb.claims)
    /\ query_cache' = ClearedCache(query_cache)
    /\ sales_df' = CopyOf(original_sales_df')
    /\ claims_df' = CopyOf(original_claims_df')
    /\ merged_df' = BuildMerged(sales_df', claims_df', merged_df)
    /\ metrics_dirty' = TRUE
    /\ change_log' = << >>
    /\ last' = Called("load_excel", << >>, "returned", << >>)

\* Where a load can raise: before any assignment (no source given, or a source
\* pd.ExcelFile cannot open, lines 30-35), and in the read of the claims sheet
\* (line 42), when line 41 has assigned the sales sheet already.
LoadFailures == {"source", "claims sheet"}

\* load_excel raises at the point named: the assignments made before it stay.
FailedLoad(wb, at) ==
    /\ original_sales_df' = IF at = "source" THEN original_sales_df ELSE AsRead(wb.sales)
    /\ last' = Called("load_excel", << >>, "raised", at)
    /\ UNCHANGED <<original_claims_df, sales_df, claims_df, merged_df, change_log,
                   query_cache, metrics_dirty>>

\* The session variables take the values of session S.
Become(S) ==
    /\ sales_df' = S.sales
    /\ claims_df' = S.claims
    /\ merged_df' = S.merged
    /\ change_log' = S.log
    /\ query_cache' = S.cache
    /\ metrics_dirty' = S.dirty

\* A working frame that is the original frame itself.
UnsharedAliased(original, working) == working

\* The original frame after a write into the working frame: the working frame
\* is a copy (lines 56-57, 724-725), another object, so the original is as it was.
Unshared(original, working) == original

\* update_cell(table, e) returns r: the session becomes r.s and the caller gets r.res.
UpdateCellReturns(table, e, r) ==
    /\ Len(r.s.log) <= MaxLog
    /\ Become(r.s)
    /\ original_sales_df' = Unshared(original_sales_df, r.s.sales)
    /\ original_claims_df' = Unshared(original_claims_df, r.s.claims)
    /\ last' = Called("update_cell", <<table, e>>,
                      IF r.res.success THEN "success"
                      ELSE IF Raised(r.res) THEN "raised" ELSE "failure", r.res)

\* update_cell(table, row_id, column, new_value)
UpdateCell(table, e) ==
    UpdateCellReturns(table, e, UpdateCellOn(Current, table, e.row_id, e.column, e.new_value))

\* all(r['success'] for r in results)
AllSuccess(results) == \A i \in DOMAIN results : results[i].success

\* bulk_update returns: the session becomes r.s and the caller gets the results
\* and their conjunction.
BulkUpdateReturns(table, updates, r) ==
    /\ Len(r.s.log) <= MaxLog
    /\ Become(r.s)
    /\ last' = Called("bulk_update", <<table, updates>>,
                      IF AllSuccess(r.results) THEN "success"
                      ELSE IF \E i \in DOMAIN r.results : Raised(r.results[i]) THEN "raised"
                      ELSE "failure",
                      [results |-> r.results, success |-> AllSuccess(r.results)])
    /\ original_sales_df' = Unshared(original_sales_df, r.s.sales)
    /\ original_claims_df' = Unshared(original_claims_df, r.s.claims)

\* bulk_update(table, updates)
BulkUpdate(table, updates) ==
    BulkUpdateReturns(table, updates, BulkUpdateOn(Current, table, updates))

\* A reset that restores the sales table only.
ResetSalesOnly(S, original_sales, original_claims) ==
    Session(CopyOf(original_sales), S.claims,
            BuildMerged(CopyOf(original_sales), S.claims, S.merged),
            << >>, ClearedCache(S.cache), TRUE)

\* Lines 724-730 on session S: the working copies are copies of the originals.
ResetOn(S, original_sales, original_claims) ==
    Session(CopyOf(original_sales), CopyOf(original_claims),
            BuildMerged(CopyOf(original_sales), CopyOf(original_claims), S.merged),
            << >>, ClearedCache(S.cache), TRUE)

\* A reset that counts the entries of the log after it has emptied it.
ResetDataCountsAfter ==
    IF original_sales_df.isNone
    THEN /\ last' = Called("reset_data", << >>, "failure", Failure("No data loaded"))
         /\ UNCHANGED <<store, query_cache, metrics_dirty>>
    ELSE IF original_claims_df.isNone
    THEN /\ sales_df' = CopyOf(original_sales_df)
         /\ last' = Called("reset_data", << >>, "raised", "AttributeError")
         /\ UNCHANGED <<original_sales_df, original_claims_df, claims_df, merged_df,
                        change_log, query_cache, metrics_dirty>>
    ELSE /\ Become(ResetOn(Current, original_sales_df, original_claims_df))
         /\ last' = Called("reset_data", << >>, "success",
                           [success |-> TRUE, changesReverted |-> 0])
         /\ UNCHANGED <<original_sales_df, original_claims_df>>

\* reset_data()
ResetData ==
    IF original_sales_df.isNone
    THEN /\ last' = Called("reset_data", << >>, "failure", Failure("No data loaded"))
         /\ UNCHANGED <<store, query_cache, metrics_dirty>>
    ELSE IF original_claims_df.isNone
    THEN \* line 725 raises on None.copy(), after line 724
         /\ sales_df' = CopyOf(original_sales_df)
         /\ last' = Called("reset_data", << >>, "raised", "AttributeError")
         /\ UNCHANGED <<original_sales_df, original_claims_df, claims_df, merged_df,
                        change_log, query_cache, metrics_dirty>>
    ELSE /\ Become(ResetOn(Current, original_sales_df, original_claims_df))
         /\ last' = Called("reset_data", << >>, "success",
                           [success |-> TRUE, changesReverted |-> Len(change_log)])
         /\ UNCHANGED <<original_sales_df, original_claims_df>>

\* A return that stores nothing.
StoreNothing(key, c) == [out |-> c.out, ret |-> c.ret, cache |-> query_cache]

\* self._query_cache[cache_key] = res, on the path that reaches it.
Store(key, c) ==
    [out |-> c.out, ret |-> c.ret,
     cache |-> IF c.out = "stored" THEN (key :> c.ret) @@ query_cache ELSE query_cache]

\* What a call of a read method does in the current state: how it ends, what it
\* returns and the cache it leaves.
ReadOn(method_name, filters) ==
    IF method_name \in CachedMethods /\ Cached(GetCacheKey(method_name, filters))
    THEN [out |-> "hit", ret |-> query_cache[GetCacheKey(method_name, filters)],
          cache |-> query_cache]
    ELSE Store(GetCacheKey(method_name, filters),
               Compute(method_name, sales_df, claims_df, merged_df, filters))

\* A read that keeps the filtered sales rows as the working table.
ReadReturnsInPlace(method_name, filters, r) ==
    /\ query_cache' = r.cache
    /\ last' = Called(method_name, filters, r.out, r.ret)
    /\ sales_df' = IF sales_df.isNone THEN sales_df ELSE ApplyFilters(sales_df, OrEmpty(filters))
    /\ UNCHANGED <<original_sales_df, original_claims_df, claims_df, merged_df, change_log,
                   metrics_dirty>>

\* A read returns: the cache it leaves, and every frame and the log as they were.
ReadReturns(method_name, filters, r) ==
    /\ query_cache' = r.cache
    /\ last' = Called(method_name, filters, r.out, r.ret)
    /\ UNCHANGED <<store, metrics_dirty>>

\* A call of a read method: get_summary, get_sales_monthly, get_sales_dealers
\* or get_filter_options.
Read(method_name, filters) == ReadReturns(method_name, filters, ReadOn(method_name, filters))

Next ==
    \/ \E wb \in Workbooks : LoadExcel(wb)
    \/ \E u \in UpdateRequests : UpdateCell(u[1], u[2])
    \/ \E b \in BulkRequests : BulkUpdate(b[1], b[2])
    \/ ResetData
    \/ \E q \in ReadRequests : Read(q[1], q[2])

Spec == Init /\ [][Next]_vars

\* Workbooks with a date column.
DatedWorkbooks ==
    { \* a sales date that is no date, a claims date that is missing
      [sales  |-> Sheet(<<"Policy No", "Dealer", "Policy Sold Date", "Gross Premium">>,
                        << <<Str("P1"), Str("D1"), Str("2024-01-15"), Num(10)>>,
                           <<Str("P2"), Str("D2"), Str("garbage"),    Num(20)>>,
                           <<Str("P3"), Str("D1"), Str("2024-03-15"), Num(0)>> >>),
       claims |-> Sheet(<<"Policy No", "Claim Status", "Failure Date", "Total Auth Amount">>,
                        << <<Str("P1"), Str("Approved"), Str("2024-01-15"), Num(100)>>,
                           <<Str("P1"), Str("Rejected"), NaN,               Num(50)>>,
                           <<Str("P3"), Str("Approved"), Str("2024-03-15"), Num(7)>> >>)],
      \* every sales date a date, no claims date column; a claim on each policy
      [sales  |-> Sheet(<<"Policy No", "Dealer", "Policy Sold Date", "Gross Premium">>,
                        << <<Str("P1"), Str("D1"), Str("2024-01-15"), Num(10)>>,
                           <<Str("P2"), Str("D1"), Str("2024-03-15"), Num(20)>> >>),
       claims |-> Sheet(<<"Policy No", "Claim Status", "Total Auth Amount">>,
                        << <<Str("P1"), Str("Approved"), Num(100)>>,
                           <<Str("P2"), Str("Approved"), Num(10)>> >>)],
      \* a premium of zero and a negative premium; a product column
      [sales  |-> Sheet(<<"Policy No", "Dealer", "Policy Sold Date", "Gross Premium",
                          "Risk Premium", "Coverage">>,
                        << <<Str("P1"), Str("D1"), Str("2024-01-15"), Num(0), Num(0), Str("Basic")>>,
                           <<Str("P2"), Str("D2"), Str("2024-03-15"), Num(-10), Num(4), Str("Plus")>> >>),
       claims |-> Sheet(<<"Policy No", "Claim Status", "Total Auth Amount">>,
                        << <<Str("P1"), Str("Rejected"), Num(100)>> >>)] }

\* The most dimensions a FilterSpec of the model names.
MaxDims == 2

\* The dimensions the FilterSpecs of the model are made of.
FilterItems ==
    { <<"dealer", Str("D1")>>, <<"dealer", Str("All")>>, <<"product", Str("Test")>>,
      <<"year", Num(2024)>>, <<"claim_status", Str("Approved")>>,
      <<"date_from", Str("2024-02-15")>>, <<"date_from", Str("garbage")>>,
      <<"date_from", Str("NaT")>>, <<"date_to", Str("2024-02-15")>>,
      <<"date_to", Str("garbage")>>,
      <<"search", Str("D1")>>, <<"search", Str("true")>>, <<"search", Str("10")>> }

\* The dicts of n items, no key twice.
DictsOf(n) ==
    { items \in [1..n -> FilterItems] :
        \A i, j \in 1..n : items[i][1] = items[j][1] => i = j }

FilterSpecs == {FNone} \cup { FDict(items) : items \in UNION { DictsOf(n) : n \in 0..MaxDims } }

TableNames == {"sales", "claims", "merged"}

\* The frame of the session a name stands for.
Frame(name) ==
    CASE name = "sales"  -> sales_df
      [] name = "claims" -> claims_df
      [] OTHER           -> merged_df

\* self._apply_filters(df, filters) on a frame of the session.
ApplyFiltersCall(name, filters) ==
    /\ ~Frame(name).isNone
    /\ last' = IF FilterRaises(Frame(name), filters)
               THEN Called("_apply_filters", <<name, filters>>, "raised", << >>)
               ELSE Called("_apply_filters", <<name, filters>>, "returned",
                           ApplyFilters(Frame(name), filters))
    /\ UNCHANGED <<store, query_cache, metrics_dirty>>

\* self._get_cache_key(method_name, filters)
GetCacheKeyCall(method_name, filters) ==
    /\ last' = Called("_get_cache_key", <<method_name, filters>>, "returned",
                      GetCacheKey(method_name, filters))
    /\ UNCHANGED <<store, query_cache, metrics_dirty>>

\* The calls of get_raw_data in the model: a table name, a page number from
\* below the first to beyond the last page, a page size, a FilterSpec, a sort.
RawRequests ==
    { [table |-> t, page |-> p, limit |-> l, filters |-> f, sort_by |-> sb[1], sort_dir |-> sb[2]] :
        t \in {"sales", "claims", "other"}, p \in {0, 1, 2, 4}, l \in {1, 2},
        f \in {FNone, FDict(<< <<"dealer", Str("D1")>> >>),
               FDict(<< <<"date_to", Str("2024-02-15")>> >>)},
        sb \in {<<"", "asc">>, <<"Gross Premium", "asc">>, <<"Gross Premium", "desc">>} }

\* The frame get_raw_data chooses for a table name (lines 585-590).
RawFrame(table) ==
    CASE table = "sales"  -> sales_df
      [] table = "claims" -> claims_df
      [] OTHER            -> NoneDF

\* get_raw_data(table, page, limit, filters, sort_by, sort_dir)
GetRawData(q) ==
    /\ last' = Called("get_raw_data", q, RawData(RawFrame(q.table), q).out,
                      RawData(RawFrame(q.table), q).ret)
    /\ UNCHANGED <<store, query_cache, metrics_dirty>>

\* No call of the two functions was made since the session was made or loaded.
\* The two functions change nothing, so what a call returns does not depend on
\* the calls before it: one call in a row is every call.
NoCallYet == last.op \in {"__init__", "load_excel"}

\* The filter pipeline and the cache key on the frames of a session.
NextFilter ==
    \/ \E wb \in DatedWorkbooks : LoadExcel(wb)
    \/ /\ NoCallYet
       /\ \E name \in TableNames : \E filters \in FilterSpecs : ApplyFiltersCall(name, filters)
    \/ /\ NoCallYet
       /\ \E method_name \in {"get_summary", "get_sales_monthly"} :
             \E filters \in FilterSpecs : GetCacheKeyCall(method_name, filters)
    \/ /\ NoCallYet
       /\ \E method_name \in {"get_summary", "get_sales_dealers", "get_sales_products"} :
             \E filters \in FilterSpecs : Read(method_name, filters)
    \/ /\ NoCallYet
       /\ \E q \in RawRequests : GetRawData(q)

SpecFilter == Init /\ [][NextFilter]_vars

\* The session under loads that succeed, loads that raise, and resets.
NextLoad ==
    \/ \E wb \in Workbooks : LoadExcel(wb)
    \/ \E wb \in Workbooks : \E at \in LoadFailures : FailedLoad(wb, at)
    \/ ResetData

SpecLoad == Init /\ [][NextLoad]_vars

-----------------------------------------------------------------------------
(* Insights (get_insights).  Premium totals are whole numbers and every    *)
(* growth rate is a fraction <<numerator, denominator>> with a positive    *)
(* denominator; the premiums of the model make every quotient a multiple   *)
(* of 1/4, which floating point holds exactly.                             *)

\* format(a / b, ',.0f') as a number, for b > 0: the nearest whole number, an
\* exact half going to the even neighbour.
RoundHalfEven(a, b) ==
    IF 2 * (a % b) = b /\ (a \div b) % 2 = 0 THEN a \div b
    ELSE (2 * a + b) \div (2 * b)

\* The first insight, chosen by the summary's loss ratio lr in tenths of a
\* percent (lines 796-821).
LossRatioInsight(lr) ==
    [type  |-> IF lr > 600 THEN "warning" ELSE "success",
     title |-> IF lr > 800 THEN "High Loss Ratio Alert"
               ELSE IF lr > 600 THEN "Elevated Loss Ratio" ELSE "Healthy Performance",
     metric |-> lr,
     trend |-> IF lr > 800 THEN "down" ELSE IF lr > 600 THEN "neutral" ELSE "up"]

\* x.get('lossRatio', 0) of a dealer record.
LossRatioOf(d) == IF "lossRatio" \in DOMAIN d THEN d.lossRatio ELSE 0

\* The insights about the dealers with more than 10 policies (lines 824-845);
\* max() returns the first of the records that share the greatest key.
DealerInsights(major) ==
    IF major = << >> THEN << >>
    ELSE (LET worst == major[CHOOSE i \in DOMAIN major :
                               \A j \in DOMAIN major :
                                  /\ LossRatioOf(major[j]) <= LossRatioOf(major[i])
                                  /\ j < i => LossRatioOf(major[j]) < LossRatioOf(major[i])]
          IN  IF LossRatioOf(worst) > 1000
              THEN << [type |-> "danger", title |-> "Critical Dealer Risk",
                       metric |-> worst.lossRatio, trend |-> "down"] >>
              ELSE << >>)
         \o
         (LET best == major[CHOOSE i \in DOMAIN major :
                              \A j \in DOMAIN major :
                                 /\ major[j].premium <= major[i].premium
                                 /\ j < i => major[j].premium < major[i].premium]
          IN  << [type |-> "info", title |-> "Top Performer",
                  metric |-> best.policies, trend |-> "up"] >>)

\* Every record of the series from the second on.
LastAll(monthly) == Tail(monthly)

\* monthly[-3:]
Last3(monthly) == SubSeq(monthly, Len(monthly) - 2, Len(monthly))

\* growth_rates (lines 855-860): (curr - prev) / prev for each two neighbours of
\* last_3 with prev > 0.
GrowthRates(last_3) ==
    SelectSeq([i \in 1..(Len(last_3) - 1) |->
                 <<last_3[i + 1].premium - last_3[i].premium, last_3[i].premium>>],
              LAMBDA g : g[2] > 0)

RECURSIVE SumRates(_)
\* sum(growth_rates) as one fraction.
SumRates(growth_rates) ==
    IF growth_rates = << >> THEN <<0, 1>>
    ELSE << Head(growth_rates)[1] * SumRates(Tail(growth_rates))[2]
              + SumRates(Tail(growth_rates))[1] * Head(growth_rates)[2],
            Head(growth_rates)[2] * SumRates(Tail(growth_rates))[2] >>

\* avg_growth (lines 853, 862-863): 0 without a rate, else the mean of the rates.
AvgGrowth(growth_rates) ==
    IF growth_rates = << >> THEN <<0, 1>>
    ELSE <<SumRates(growth_rates)[1], Len(growth_rates) * SumRates(growth_rates)[2]>>

\* The forecast insight (lines 865-877): forecast_prem = last_prem * (1 +
\* avg_growth) as the metric shows it, and avg_growth * 100 as the description
\* shows it, in tenths of a percent.
ForecastInsight(last_prem, avg_growth) ==
    [type |-> "forecast", title |-> "Sales Forecast",
     metric |-> RoundHalfEven(last_prem * (avg_growth[2] + avg_growth[1]), avg_growth[2]),
     growth |-> RoundHalfEven(avg_growth[1] * 1000, avg_growth[2]),
     trend |-> IF avg_growth[1] > 0 THEN "up" ELSE "down"]

\* The third part of get_insights (lines 848-877).
Forecast(monthly) ==
    IF Len(monthly) >= 3
    THEN << ForecastInsight(monthly[Len(monthly)].premium,
                            AvgGrowth(GrowthRates(Last3(monthly)))) >>
    ELSE << >>

\* The list get_insights builds from what the three reads returned.
Insights(summary, dealers, monthly) ==
    <<LossRatioInsight(summary.lossRatio)>>
      \o DealerInsights(SelectSeq(dealers, LAMBDA d : d.policies > 10))
      \o Forecast(monthly)

\* get_insights after its cache lookup, from what get_summary, get_sales_dealers
\* and get_sales_monthly do in the current state: each of the three stores its
\* own result, and one that raises ends the call with the results before it
\* stored.
ComputeInsights(key, s, d, m) ==
    IF sales_df.isNone THEN [out |-> "noData", ret |-> << >>, cache |-> query_cache]
    ELSE IF s.out = "raised" THEN [out |-> "raised", ret |-> << >>, cache |-> query_cache]
    ELSE IF d.out = "raised" THEN [out |-> "raised", ret |-> << >>, cache |-> s.cache]
    ELSE IF m.out = "raised"
    THEN [out |-> "raised", ret |-> << >>, cache |-> d.cache @@ s.cache]
    ELSE [out |-> "stored", ret |-> Insights(s.ret, d.ret, m.ret),
          cache |-> (key :> Insights(s.ret, d.ret, m.ret)) @@ m.cache @@ d.cache @@ s.cache]

\* get_insights(filters)
GetInsights(filters) ==
    /\ IF Cached(GetCacheKey("get_insights", filters))
       THEN /\ last' = Called("get_insights", filters, "hit",
                              query_cache[GetCacheKey("get_insights", filters)])
            /\ UNCHANGED query_cache
       ELSE /\ last' = Called("get_insights", filters,
                              ComputeInsights(GetCacheKey("get_insights", filters),
                                              ReadOn("get_summary", filters),
                                              ReadOn("get_sales_dealers", filters),
                                              ReadOn("get_sales_monthly", filters)).out,
                              ComputeInsights(GetCacheKey("get_insights", filters),
                                              ReadOn("get_summary", filters),
                                              ReadOn("get_sales_dealers", filters),
                                              ReadOn("get_sales_monthly", filters)).ret)
            /\ query_cache' = ComputeInsights(GetCacheKey("get_insights", filters),
                                              ReadOn("get_summary", filters),
                                              ReadOn("get_sales_dealers", filters),
                                              ReadOn("get_sales_monthly", filters)).cache
    /\ UNCHANGED <<store, metrics_dirty>>

\* The monthly premiums of the model: a refund month, an empty month, two sizes.
Premiums == {-10, 0, 10, 20}

\* The longest monthly series of the model.
MaxPeriods == 4

\* The periods December 2023, January 2024, February 2024, ...
PeriodYear(m) == IF m = 1 THEN 2023 ELSE 2024
PeriodMonth(m) == IF m = 1 THEN 12 ELSE m - 1

\* A workbook with one policy a period, the latest period first in the sheet,
\* the dealers D1 and D2 in turn.
MonthlyWorkbook(premiums) ==
    [sales  |-> Sheet(<<"Policy No", "Dealer", "Year", "Month", "Gross Premium", "Risk Premium">>,
                      [i \in 1..Len(premiums) |->
                         << Str(<<"P1", "P2", "P3">>[((Len(premiums) - i) % 3) + 1]),
                            Str(IF (Len(premiums) + 1 - i) % 2 = 1 THEN "D1" ELSE "D2"),
                            Num(PeriodYear(Len(premiums) + 1 - i)),
                            Num(PeriodMonth(Len(premiums) + 1 - i)),
                            Num(premiums[Len(premiums) + 1 - i]),
                            Num(0) >>]),
     claims |-> Sheet(<<"Policy No", "Total Auth Amount">>, << <<Str("P1"), Num(9)>> >>)]

MonthlyWorkbooks ==
    { MonthlyWorkbook(premiums) : premiums \in UNION { [1..n -> Premiums] : n \in 2..MaxPeriods } }

\* The FilterSpecs of the calls: none, one that keeps every second period, one
\* that drops the first period.
InsightFilters ==
    {FNone, FDict(<< <<"dealer", Str("D1")>> >>), FDict(<< <<"year", Num(2024)>> >>)}

\* A load into the new session, and calls of get_insights before and after it.
\* A load replaces the whole session, so the first load stands for every load.
NextInsights ==
    \/ /\ last.op = "__init__"
       /\ \E wb \in MonthlyWorkbooks : LoadExcel(wb)
    \/ \E filters \in InsightFilters : GetInsights(filters)

SpecInsights == Init /\ [][NextInsights]_vars

-----------------------------------------------------------------------------
(* The validator under every table name.                                   *)

\* The edits aimed at the validator: a monetary column of each table and the
\* status column, with a negative number, a number, float('nan'), a string that
\* is no number, an illegal and a legal status.
ValidationEdits ==
    { Edit(0, "Gross Premium", Num(-5)), Edit(0, "Gross Premium", Num(7)),
      Edit(0, "Gross Premium", NaN), Edit(1, "Risk Premium", Str("x")),
      Edit(0, "Total Auth Amount", Num(-5)), Edit(0, "Total Auth Amount", NaN),
      Edit(1, "Labor", Num(-5)),
      Edit(0, "Claim Status", Str("Pending")), Edit(0, "Claim Status", Str("Reversed")) }

\* The bulk calls: a refused edit between two accepted ones.
ValidationBulks ==
    { <<Edit(0, "Total Auth Amount", Num(7)), Edit(0, "Total Auth Amount", Num(-5)),
        Edit(0, "Claim Status", Str("Rejected"))>>,
      <<Edit(0, "Gross Premium", Num(7)), Edit(0, "Gross Premium", NaN)>> }

\* Loads, and edits under the two table names and under another name.
NextValidate ==
    \/ \E wb \in Workbooks : LoadExcel(wb)
    \/ \E table \in {"sales", "claims", "other"} :
          \E e \in ValidationEdits : UpdateCell(table, e)
    \/ \E table \in {"sales", "claims", "other"} :
          \E updates \in ValidationBulks : BulkUpdate(table, updates)

SpecValidate == Init /\ [][NextValidate]_vars

-----------------------------------------------------------------------------
(* The session before its first successful load.                           *)

\* The columns of the list that the frame lacks, in the order of the list.
MissingCols(df, required) == SelectSeq(required, LAMBDA c : ~HasCol(df, c))

\* df.duplicated(subset=[c]).sum(): the rows whose value of c a row before has.
Duplicated(df, c) ==
    Cardinality({i \in DOMAIN df.rows : \E j \in 1..(i - 1) : df.rows[j][c] = df.rows[i][c]})

\* pd.to_numeric(df[c], errors='coerce').isna().sum()
NonNumeric(df, c) ==
    Cardinality({i \in DOMAIN df.rows :
                   IsNa(df.rows[i][c]) \/ (df.rows[i][c].k = "str" /\ ~IsNumeral(df.rows[i][c].s))})

\* The issues validate_data lists on a loaded session (lines 892-918), each
\* with its type, its message and the columns or the count in the message.
ValidateIssues(sales, claims) ==
    (IF MissingCols(sales, <<"Policy No", "Dealer", "Product", "Year", "Month", "Premium">>) # << >>
     THEN << [type |-> "error", message |-> "Missing required Sales columns",
              detail |-> MissingCols(sales, <<"Policy No", "Dealer", "Product", "Year",
                                              "Month", "Premium">>)] >>
     ELSE << >>)
    \o (IF ~claims.isNone
           /\ MissingCols(claims, <<"Policy No", "Claim Status", "Total Auth Amount">>) # << >>
        THEN << [type |-> "error", message |-> "Missing required Claims columns",
                 detail |-> MissingCols(claims, <<"Policy No", "Claim Status",
                                                  "Total Auth Amount">>)] >>
        ELSE << >>)
    \o (IF HasCol(sales, "Policy No") /\ Duplicated(sales, "Policy No") > 0
        THEN << [type |-> "warning", message |-> "duplicate Policy Numbers in Sales data",
                 detail |-> Duplicated(sales, "Policy No")] >>
        ELSE << >>)
    \o (IF HasCol(sales, "Premium") /\ NonNumeric(sales, "Premium") > 0
        THEN << [type |-> "warning", message |-> "non-numeric values in Premium column",
                 detail |-> NonNumeric(sales, "Premium")] >>
        ELSE << >>)

\* status: "error" once an error is listed, else "warning" once a warning is.
StatusOf(issues) ==
    IF \E i \in DOMAIN issues : issues[i].type = "error" THEN "error"
    ELSE IF issues # << >> THEN "warning" ELSE "valid"

\* validate_data
ValidateData ==
    /\ last' = IF sales_df.isNone
               THEN Called("validate_data", << >>, "noData",
                           [status |-> "error", issues |-> <<"No data loaded">>])
               ELSE Called("validate_data", << >>, "returned",
                           [status |-> StatusOf(ValidateIssues(sales_df, claims_df)),
                            issues |-> ValidateIssues(sales_df, claims_df)])
    /\ UNCHANGED <<store, query_cache, metrics_dirty>>

\* What export_data writes for the frame it chose: nothing, or the sheet of the
\* frame without its row ids (lines 737-743).
ExportOf(df) ==
    IF df.isNone THEN Outcome("noData", << >>)
    ELSE Outcome("returned",
                 [columns |-> SelectSeq(df.columns, LAMBDA c : c # "_row_id"),
                  rows |-> [i \in DOMAIN df.rows |->
                              [c \in DOMAIN df.rows[i] \ {"_row_id"} |-> df.rows[i][c]]]])

\* export_data(table)
ExportData(table) ==
    /\ last' = Called("export_data", table,
                      ExportOf(IF table = "sales" THEN sales_df ELSE claims_df).out,
                      ExportOf(IF table = "sales" THEN sales_df ELSE claims_df).ret)
    /\ UNCHANGED <<store, query_cache, metrics_dirty>>

\* get_change_log
GetChangeLog ==
    /\ last' = Called("get_change_log", << >>, "returned", change_log)
    /\ UNCHANGED <<store, query_cache, metrics_dirty>>

\* get_data_summary_for_ai(filters), from what get_summary does in the current
\* state: the text "No data loaded." for an empty summary, and for every other
\* summary the KeyError of summary['uniqueDealers'] (line 767).
GetDataSummaryForAi(filters) ==
    /\ last' = IF ReadOn("get_summary", filters).out = "noData"
               THEN Called("get_data_summary_for_ai", filters, "noData", "No data loaded.")
               ELSE Called("get_data_summary_for_ai", filters, "raised", << >>)
    /\ query_cache' = ReadOn("get_summary", filters).cache
    /\ UNCHANGED <<store, metrics_dirty>>

\* The read methods that have no model of their aggregation, each with the
\* frame it tests for None after its cache lookup.
OtherReads ==
    { <<"get_sales_vehicles", "sales">>, <<"get_claims_status", "claims">>,
      <<"get_claims_parts", "claims">>, <<"get_claims_trends", "claims">>,
      <<"get_claims_recent", "claims">>, <<"get_correlations", "merged">> }

\* A call of one of them where that frame is None: the empty result, nothing
\* stored (no key of these methods is ever in the cache of the model).
NoDataRead(method_name, name, filters) ==
    /\ Frame(name).isNone
    /\ last' = Called(method_name, filters, "noData", << >>)
    /\ UNCHANGED <<store, query_cache, metrics_dirty>>

\* A session that no load has succeeded in: loads that raise, and every other
\* operation.
NextUnloaded ==
    \/ \E wb \in Workbooks : \E at \in LoadFailures : FailedLoad(wb, at)
    \/ \E q \in ReadRequests : Read(q[1], q[2])
    \/ \E m \in OtherReads : \E filters \in InsightFilters : NoDataRead(m[1], m[2], filters)
    \/ \E filters \in InsightFilters : GetInsights(filters)
    \/ \E filters \in InsightFilters : GetDataSummaryForAi(filters)
    \/ \E q \in {r \in RawRequests : r.page = 1 /\ r.limit = 2 /\ r.sort_by = ""} : GetRawData(q)
    \/ \E u \in UpdateRequests : UpdateCell(u[1], u[2])
    \/ \E b \in BulkRequests : BulkUpdate(b[1], b[2])
    \/ ResetData
    \/ ValidateData
    \/ \E table \in {"sales", "claims", "other"} : ExportData(table)
    \/ GetChangeLog

SpecUnloaded == Init /\ [][NextUnloaded]_vars

-----------------------------------------------------------------------------
(* Properties.                                                             *)

\* The filters argument a cache key was made from.
FiltersOf(key) == IF key.none THEN FNone ELSE FDict(key.items)

\* What the method computes from scratch on the current working tables and the
\* current merged view.
Fresh(method_name, filters) ==
    Compute(method_name, sales_df, claims_df, merged_df, filters).ret

\* The call ran the filter and aggregation step.
Ran(out) == out \in {"stored", "unstored", "raised"}

AcceptedUpdate(l) == l.op = "update_cell" /\ l.out = "success"
RejectedUpdate(l) == l.op = "update_cell" /\ l.out = "failure"

\* C1 (cache coherence): in every state reached by loads, edits, resets and
\* reads, every entry of the query cache holds the value its method computes
\* from scratch for its filters on the current working tables and merged view,
\* and every call of a cached aggregation returns that value; so a value
\* computed before an accepted edit is not returned after it.
C1_CacheCoherence ==
    /\ \A key \in DOMAIN query_cache :
          query_cache[key] = Fresh(key.method, FiltersOf(key))
    /\ \A q \in ReadRequests :
          q[1] \in CachedMethods => ReadOn(q[1], q[2]).ret = Fresh(q[1], q[2])
    /\ (last.op \in CachedMethods /\ last.out # "raised") => last.ret = Fresh(last.op, last.arg)

\* A read answered from the cache in a session that has an accepted edit behind it.
C1_Witness ==
    /\ last.out = "hit"
    /\ Len(change_log) > 0
    /\ sales_df # original_sales_df

\* C2 (invalidation): right after a load, an accepted update_cell or a
\* reset_data the query cache has no entry, and no read is answered from it.
C2_CacheEmptyAfterMutation ==
    (last.op \in {"load_excel", "reset_data"} \/ AcceptedUpdate(last)) =>
        /\ query_cache = EmptyCache
        /\ \A q \in ReadRequests : ReadOn(q[1], q[2]).out # "hit"

\* An accepted edit has just returned in a loaded session with two log entries.
C2_Witness ==
    /\ AcceptedUpdate(last)
    /\ Len(change_log) = 2
    /\ query_cache = EmptyCache

\* A call q of a cached aggregation has just returned a value: what the state
\* holds is what the same call finds when it is made again at once.
JustCalled(q) ==
    /\ q[1] \in CachedMethods
    /\ last.op = q[1]
    /\ last.arg = q[2]
    /\ last.out # "raised"

Originals == <<original_sales_df, original_claims_df>>

\* C4 (original immutability): a step that is not a load (an update_cell, a
\* bulk_update, a reset_data or a read) leaves every cell of both original
\* copies as it was.
C4_OriginalsImmutable ==
    [][last'.op # "load_excel" => UNCHANGED Originals]_vars

\* Both working tables have been edited away from their originals.
C4_Witness ==
    /\ Len(change_log) = 2
    /\ sales_df # original_sales_df
    /\ claims_df # original_claims_df

\* The frames load_excel makes of a workbook are the originals.
TakenAtLoad ==
    \E wb \in Workbooks :
        /\ original_sales_df = ReadSheet(wb.sales)
        /\ original_claims_df = ReadSheet(wb.claims)

\* C5 (reset restores): when reset_data has returned success, each working
\* table equals, cell for cell, its original copy, which is the table as it
\* was loaded, and the change log is empty.
C5_ResetRestores ==
    (last.op = "reset_data" /\ last.out = "success") =>
        /\ sales_df = original_sales_df
        /\ claims_df = original_claims_df
        /\ change_log = << >>
        /\ TakenAtLoad

\* A reset that reverted two accepted edits.
C5_Witness ==
    /\ last.op = "reset_data"
    /\ last.out = "success"
    /\ last.ret.changesReverted = 2

\* The frame a call with this table name works on, among the frames given.
Named(table, sales, claims) == IF table = "sales" THEN sales ELSE claims

\* The cell (row_id, column) of frame df.
Cell(df, row_id, column) ==
    df.rows[CHOOSE i \in DOMAIN df.rows : df.rows[i]["_row_id"] = Num(row_id)][column]

\* A missing value is logged as None.
Logged(v) == IF v.k = "nan" THEN NoneV ELSE v

\* The entry an accepted call with arguments arg = <<table, edit>> is to log,
\* from the cell before and after the step.
EntryOf(arg, before, after) ==
    [table |-> arg[1], row_id |-> arg[2].row_id, column |-> arg[2].column,
     old_value |-> Logged(Cell(before, arg[2].row_id, arg[2].column)),
     new_value |-> Logged(Cell(after, arg[2].row_id, arg[2].column))]

\* The number of successes in a list of results.
Successes(results) == Cardinality({i \in DOMAIN results : results[i].success})

ReadMethods == CachedMethods \cup {"get_filter_options"}

\* C6 (change log append-only): an accepted update_cell appends exactly one
\* entry at the end of the log, with the call's table, row id and column and the
\* cell's old and new value; a rejected update_cell and a read leave the log as
\* it is; a bulk_update appends one entry per accepted edit; only a load and a
\* successful reset_data empty it.
C6_LogAppendOnly ==
    [][/\ AcceptedUpdate(last') =>
            change_log' = Append(change_log,
                                 EntryOf(last'.arg,
                                         Named(last'.arg[1], sales_df, claims_df),
                                         Named(last'.arg[1], sales_df', claims_df')))
       /\ (RejectedUpdate(last') \/ last'.op \in ReadMethods) => change_log' = change_log
       /\ last'.op = "bulk_update" =>
            /\ Len(change_log') = Len(change_log) + Successes(last'.ret.results)
            /\ SubSeq(change_log', 1, Len(change_log)) = change_log
       /\ last'.op = "reset_data" =>
            change_log' = IF last'.out = "success" THEN << >> ELSE change_log
       /\ last'.op = "load_excel" => change_log' = << >>]_vars

\* Two different entries in the log, after an accepted edit.
C6_Witness ==
    /\ AcceptedUpdate(last)
    /\ Len(change_log) = 2
    /\ change_log[1] # change_log[2]
    /\ change_log[2].old_value # change_log[2].new_value

\* The value is a number or a numeral.
Numeric(v) == v.k = "num" \/ (v.k = "str" /\ IsNumeral(v.s))

\* The reasons the specification gives for update_cell to fail, for a call with
\* arguments arg = <<table, edit>> on the frame df it names.
MustFail(arg, df) ==
    \/ df.isNone
    \/ ~HasCol(df, arg[2].column)
    \/ arg[2].column = "_row_id"
    \/ \A i \in DOMAIN df.rows : df.rows[i]["_row_id"] # Num(arg[2].row_id)
    \/ /\ arg[1] = "sales"
       /\ arg[2].column \in {"Gross Premium", "Risk Premium"}
       /\ (~Numeric(arg[2].new_value) \/ arg[2].new_value.n < 0)
    \/ /\ arg[1] = "claims"
       /\ arg[2].column = "Claim Status"
       /\ arg[2].new_value.s \notin {"Approved", "Rejected", "Reversed"}

NotNamed(table, sales, claims) == IF table = "sales" THEN claims ELSE sales

\* Frame after has the columns and rows of frame before, and the cells of
\* before everywhere but at (the one row with that row id, column).
SameButCell(before, after, row_id, column) ==
    /\ after.isNone = before.isNone
    /\ after.columns = before.columns
    /\ DOMAIN after.rows = DOMAIN before.rows
    /\ Cardinality({i \in DOMAIN before.rows : before.rows[i]["_row_id"] = Num(row_id)}) = 1
    /\ \A i \in DOMAIN before.rows :
          /\ DOMAIN after.rows[i] = DOMAIN before.rows[i]
          /\ \A c \in DOMAIN before.rows[i] :
                (before.rows[i]["_row_id"] # Num(row_id) \/ c # column) =>
                    after.rows[i][c] = before.rows[i][c]

\* The value the validator makes of v for a column of the table: a number for
\* the table's numeric columns, v itself for the others.
ValidatedValue(table, column, v) ==
    IF column \in NumericCols(table) /\ v.k = "str" THEN Num(NumeralValue(v.s)) ELSE v

C9_MergedFresh ==
    merged_df = BuildMerged(sales_df, claims_df, merged_df)

\* An update_cell was refused after an accepted edit had changed the merged view.
C9_Witness ==
    /\ RejectedUpdate(last)
    /\ Len(change_log) > 0
    /\ merged_df # BuildMerged(original_sales_df, original_claims_df, NoneDF)

\* The policy column resolves on both working tables.
PolicyResolves ==
    /\ ~sales_df.isNone
    /\ ~claims_df.isNone
    /\ FindColumn(sales_df, PolicyCandidates) # ""
    /\ FindColumn(claims_df, PolicyCandidates) # ""

\* The claims working rows with policy id pid.
ClaimsWith(pid) ==
    {j \in DOMAIN claims_df.rows :
        claims_df.rows[j][FindColumn(claims_df, PolicyCandidates)] = pid}

\* The 'Total Auth Amount' of claims row j: nothing when the column or the value is missing.
AuthAmount(j) ==
    IF HasCol(claims_df, "Total Auth Amount") /\ claims_df.rows[j]["Total Auth Amount"].k = "num"
    THEN claims_df.rows[j]["Total Auth Amount"].n
    ELSE 0

RECURSIVE AuthAmountOver(_)
AuthAmountOver(J) ==
    IF J = {} THEN 0
    ELSE AuthAmount(CHOOSE j \in J : TRUE) + AuthAmountOver(J \ {CHOOSE j \in J : TRUE})

\* Merged row i is sales row i with the claim count of its policy id and the flag.
RowJoined(i) ==
    /\ \A c \in DOMAIN sales_df.rows[i] : merged_df.rows[i][c] = sales_df.rows[i][c]
    /\ merged_df.rows[i]["claim_count"] =
          Num(Cardinality(ClaimsWith(sales_df.rows[i][FindColumn(sales_df, PolicyCandidates)])))
    /\ merged_df.rows[i]["has_claim"] = Bool(merged_df.rows[i]["claim_count"].n > 0)

\* The sum of 'Total Auth Amount' over the claims rows of sales row i's policy.
AmountOfPolicy(i) ==
    AuthAmountOver(ClaimsWith(sales_df.rows[i][FindColumn(sales_df, PolicyCandidates)]))

\* C10 as stated (merge correctness): when the policy column resolves on both
\* sides, the merged view has one row per sales row, in order and with the
\* sales cells, claim_count is the number of claims rows of the policy,
\* total_claim_amount the sum of their 'Total Auth Amount' (0 without any) and
\* has_claim says claim_count > 0.
C10_Original ==
    PolicyResolves =>
        /\ Len(merged_df.rows) = Len(sales_df.rows)
        /\ \A i \in DOMAIN sales_df.rows :
              /\ RowJoined(i)
              /\ merged_df.rows[i]["total_claim_amount"] = Num(AmountOfPolicy(i))

\* C10, amended: the same, with total_claim_amount the sum of 'Total Auth
\* Amount' when the claims table has that column, and the number of the
\* policy's claims rows when it has not.
C10_MergeCorrect ==
    PolicyResolves =>
        /\ Len(merged_df.rows) = Len(sales_df.rows)
        /\ \A i \in DOMAIN sales_df.rows :
              /\ RowJoined(i)
              /\ merged_df.rows[i]["total_claim_amount"] =
                    IF HasCol(claims_df, "Total Auth Amount")
                    THEN Num(AmountOfPolicy(i))
                    ELSE merged_df.rows[i]["claim_count"]

\* After an amount was edited to 7: the first policy has two claims of 57 in
\* all, the second none.
C10_Witness ==
    /\ PolicyResolves
    /\ Len(change_log) > 0
    /\ Len(merged_df.rows) = 3
    /\ merged_df.rows[1]["claim_count"] = Num(2)
    /\ merged_df.rows[1]["total_claim_amount"] = Num(57)
    /\ merged_df.rows[2]["has_claim"] = Bool(FALSE)

\* Sales row i is of a policy without claims rows.
NoClaims(i) ==
    ClaimsWith(sales_df.rows[i][FindColumn(sales_df, PolicyCandidates)]) = {}

\* C11 as stated (zero aggregates): in the merged view, every row of a policy
\* without claims holds 0 in claim_count, total_claim_amount, total_labor and
\* total_parts, none of them a missing value.
C11_Original ==
    PolicyResolves =>
        \A i \in DOMAIN sales_df.rows :
            NoClaims(i) =>
                /\ merged_df.rows[i]["claim_count"] = Num(0)
                /\ merged_df.rows[i]["total_claim_amount"] = Num(0)
                /\ merged_df.rows[i]["total_labor"] = Num(0)
                /\ merged_df.rows[i]["total_parts"] = Num(0)

\* Both working tables are loaded and the policy column is missing in one of them.
PolicyUnresolved ==
    /\ ~sales_df.isNone
    /\ ~claims_df.isNone
    /\ ~PolicyResolves

\* C12 (degraded merge): when the policy column resolves in the sales table or
\* in the claims table to nothing, the merged view is there and is the sales
\* working table, row for row, with has_claim false, claim_count 0 and
\* total_claim_amount 0 on every row; after every edit and reset as after the load.
C12_DegradedMerge ==
    PolicyUnresolved =>
        /\ ~merged_df.isNone
        /\ merged_df.columns = sales_df.columns \o <<"has_claim", "claim_count", "total_claim_amount">>
        /\ Len(merged_df.rows) = Len(sales_df.rows)
        /\ \A i \in DOMAIN sales_df.rows :
              /\ DOMAIN merged_df.rows[i] =
                    DOMAIN sales_df.rows[i] \cup {"has_claim", "claim_count", "total_claim_amount"}
              /\ \A c \in DOMAIN sales_df.rows[i] : merged_df.rows[i][c] = sales_df.rows[i][c]
              /\ merged_df.rows[i]["has_claim"] = Bool(FALSE)
              /\ merged_df.rows[i]["claim_count"] = Num(0)
              /\ merged_df.rows[i]["total_claim_amount"] = Num(0)

\* A sales cell was edited in a session whose claims table has no policy column.
C12_Witness ==
    /\ PolicyUnresolved
    /\ FindColumn(sales_df, PolicyCandidates) # ""
    /\ AcceptedUpdate(last)
    /\ sales_df # original_sales_df

\* A reset has reverted an edit in a session whose sales table has no policy column.
C12_WitnessReset ==
    /\ PolicyUnresolved
    /\ FindColumn(sales_df, PolicyCandidates) = ""
    /\ last.op = "reset_data"
    /\ last.ret.changesReverted > 0

\* What update_cell returns for entry n of updates, called on session S.
EntryCall(S, table, updates, n) ==
    UpdateCellOn(S, table, updates[n].row_id, updates[n].column, updates[n].new_value)

RECURSIVE AfterEntries(_, _, _, _)
\* The session after update_cell was called for the entries 1..n of updates,
\* one call after the other, from session S on.
AfterEntries(S, table, updates, n) ==
    IF n = 0 THEN S
    ELSE EntryCall(AfterEntries(S, table, updates, n - 1), table, updates, n).s

\* The outcome r of bulk_update(table, updates) called on session S is that of
\* the calls of update_cell, entry by entry.
AsSequence(S, table, updates, T, r) ==
    /\ T.sales = sales_df'
    /\ T.claims = claims_df'
    /\ T.merged = merged_df'
    /\ T.log = change_log'
    /\ Len(r.results) = Len(updates)
    /\ \A n \in DOMAIN updates :
          r.results[n] = EntryCall(AfterEntries(S, table, updates, n - 1), table, updates, n).res
    /\ r.success = (\A n \in DOMAIN updates : r.results[n].success)

\* C13 (bulk update is the sequence of single updates): a call of bulk_update
\* leaves the working tables, the merged view and the change log as the calls
\* of update_cell, one per entry and in order, leave them; results[i] is what
\* the i-th of these calls returns and success is their conjunction, so a
\* failing entry undoes no earlier entry and stops no later one.
C13_BulkIsSequence ==
    [][last'.op = "bulk_update" =>
          AsSequence(Current, last'.arg[1], last'.arg[2],
                     AfterEntries(Current, last'.arg[1], last'.arg[2], Len(last'.arg[2])),
                     last'.ret)]_vars

\* A bulk update whose first entry was rejected and whose second was applied.
C13_Witness ==
    /\ last.op = "bulk_update"
    /\ Len(last.ret.results) = 2
    /\ ~last.ret.results[1].success
    /\ last.ret.results[2].success
    /\ ~last.ret.success
    /\ change_log # << >>
    /\ change_log[Len(change_log)].column = last.arg[2][2].column

\* A bulk update whose first entry was applied and whose second was rejected.
C13_WitnessKept ==
    /\ last.op = "bulk_update"
    /\ Len(last.ret.results) = 2
    /\ last.ret.results[1].success
    /\ ~last.ret.results[2].success
    /\ change_log # << >>

\* C14 as stated (a failed load changes nothing): a call of load_excel that
\* raises leaves both original copies, both working copies, the merged view,
\* the change log and the cache as they were before the call.
C14_Original ==
    [][(last'.op = "load_excel" /\ last'.out = "raised") =>
          UNCHANGED <<store, query_cache>>]_vars

\* C14 as stated, the reset that follows: after a load that raised, a
\* reset_data that succeeds restores sales rows that a load has given row ids.
C14_OriginalReset ==
    (last.op = "reset_data" /\ last.out = "success") => HasCol(sales_df, "_row_id")

\* The rows of working frame df are those of its original, by number and by id:
\* the ids are 0..n-1 in row order.
SameRowIds(df, original) ==
    ~df.isNone =>
        /\ Len(df.rows) = Len(original.rows)
        /\ \A i \in DOMAIN df.rows :
              /\ df.rows[i]["_row_id"] = Num(i - 1)
              /\ original.rows[i]["_row_id"] = Num(i - 1)

\* C15 (row ids are stable): a load numbers the rows of each table 0..n-1 in
\* row order, and after every update_cell, bulk_update and reset_data each
\* working table has as many rows as were loaded, with the same ids, pairwise
\* distinct, at the same positions.
C15_RowIdsStable ==
    /\ SameRowIds(sales_df, original_sales_df)
    /\ SameRowIds(claims_df, original_claims_df)

\* An edit of the '_row_id' column was rejected, after an edit that was applied;
\* the table has two rows at least.
C15_Witness ==
    /\ RejectedUpdate(last)
    /\ last.ret.error = "Cannot edit row ID"
    /\ change_log # << >>
    /\ Len(claims_df.rows) >= 2

\* The filter pipeline has returned a frame.
Filtered == last.op = "_apply_filters" /\ last.out = "returned"

\* The frame and the FilterSpec the pipeline was called with.
FilterInput == Frame(last.arg[1])
FilterSpecOf == last.arg[2]

\* The FilterSpec names the dimension and not with 'All'.
Constrains(filters, key) == HasKey(filters, key) /\ Get(filters, key) # Str("All")

\* Row r has value v in column col; a dimension on a column the frame has not
\* ("" for none) asks nothing.
HoldsEq(df, r, col, v) == (col # "" /\ HasCol(df, col)) => ValEq(r[col], v)

\* The date in cell c is on the bound's side: a bound that is no date asks
\* nothing, a cell that is no date passes, a missing date is on no side.
HoldsDate(c, bound, from) ==
    \/ ToDatetimeRaises(bound)
    \/ ToDatetimeRaises(c)
    \/ /\ ~IsNaT(c) /\ ~IsNaT(bound)
       /\ IF from THEN DayOf(c) >= DayOf(bound) ELSE DayOf(c) <= DayOf(bound)

\* Row r of frame df satisfies every dimension the FilterSpec constrains.
Satisfies(df, r, filters) ==
    /\ Constrains(filters, "dealer") =>
          HoldsEq(df, r, FindColumn(df, <<"Dealer", "Dealer AJA">>), Get(filters, "dealer"))
    /\ Constrains(filters, "product") =>
          HoldsEq(df, r, FindColumn(df, <<"Product", "Coverage">>), Get(filters, "product"))
    /\ Constrains(filters, "year") => HoldsEq(df, r, "Year", IntOf(Get(filters, "year")))
    /\ Constrains(filters, "month") => HoldsEq(df, r, "Month", IntOf(Get(filters, "month")))
    /\ Constrains(filters, "make") => HoldsEq(df, r, "Make", Get(filters, "make"))
    /\ Constrains(filters, "claim_status") =>
          HoldsEq(df, r, "Claim Status", Get(filters, "claim_status"))
    /\ (HasKey(filters, "date_from") /\ FindColumn(df, DateCandidates) # "") =>
          HoldsDate(r[FindColumn(df, DateCandidates)], Get(filters, "date_from"), TRUE)
    /\ (HasKey(filters, "date_to") /\ FindColumn(df, DateCandidates) # "") =>
          HoldsDate(r[FindColumn(df, DateCandidates)], Get(filters, "date_to"), FALSE)
    /\ HasKey(filters, "search") => RowContains(r, LowerChars(Get(filters, "search").s))

\* The rows of df that satisfy the FilterSpec, in the order of df.
Satisfying(df, filters) ==
    [df EXCEPT !.rows = SelectSeq(df.rows, LAMBDA r : Satisfies(df, r, filters))]

\* C16 as stated (the pipeline is the conjunction of its dimensions): the frame
\* the filter pipeline returns has exactly the rows of its input, in input
\* order, that satisfy every dimension the FilterSpec constrains, whatever the
\* order the dimensions are applied in; an absent dimension, one set to 'All'
\* and an equality dimension on an absent column constrain nothing.
C16_Original ==
    Filtered => last.ret = Satisfying(FilterInput, FilterSpecOf)

\* The same on the frames whose date column holds dates and missing values only.
C16_OnDates ==
    (Filtered /\ (FindColumn(FilterInput, DateCandidates) # "" =>
                     ~ColumnRaises(FilterInput, FindColumn(FilterInput, DateCandidates)))) =>
        last.ret = Satisfying(FilterInput, FilterSpecOf)

\* C17 (reads do not write): a call of a read operation leaves the working
\* tables, the original copies, the merged view and the change log as they
\* were; of the session state only the query cache may differ after it.
C17_ReadsChangeNoData ==
    [][last'.op \in ReadMethods => UNCHANGED store]_vars

\* A filtered read that dropped rows has computed and stored its result, in a
\* session with an edit in its log.
C17_Witness ==
    /\ last.op = "get_summary"
    /\ last.out = "stored"
    /\ Active(OrEmpty(last.arg), "dealer")
    /\ Len(ApplyFilters(sales_df, OrEmpty(last.arg)).rows) < Len(sales_df.rows)
    /\ change_log # << >>

\* The FilterSpec without the dimension key.
Without(filters, key) == FDict(SelectSeq(filters.items, LAMBDA it : it[1] # key))

\* The pipeline was called with a bound for key that pd.to_datetime cannot parse.
BadBound(key) ==
    /\ last.op = "_apply_filters"
    /\ HasKey(FilterSpecOf, key)
    /\ ToDatetimeRaises(Get(FilterSpecOf, key))

DateOnly(key) ==
    /\ Filtered
    /\ Len(FilterSpecOf.items) = 1
    /\ HasKey(FilterSpecOf, key)
    /\ IsDate(Get(FilterSpecOf, key))
    /\ FindColumn(FilterInput, DateCandidates) # ""

\* Row r is among the rows returned.
Survives(r) == \E j \in DOMAIN last.ret.rows : last.ret.rows[j] = r

\* What C19 asks of the rows of the input for the bound of key: a row whose
\* date cannot be parsed survives, a row with a date survives exactly when the
\* date is on the bound's side.
ByRow(key, col) ==
    \A i \in DOMAIN FilterInput.rows :
        /\ ToDatetimeRaises(FilterInput.rows[i][col]) => Survives(FilterInput.rows[i])
        /\ IsDate(FilterInput.rows[i][col]) =>
              (Survives(FilterInput.rows[i]) <=>
                  IF key = "date_from"
                  THEN DayOf(FilterInput.rows[i][col]) >= DayOf(Get(FilterSpecOf, key))
                  ELSE DayOf(FilterInput.rows[i][col]) <= DayOf(Get(FilterSpecOf, key)))

\* C19 as stated (a date that cannot be parsed passes, row by row): under a
\* date_from or date_to that is a date, a row whose date value cannot be parsed
\* survives the date dimension and every row with a date is kept or dropped
\* as the bound says.
C19_Original ==
    \A key \in {"date_from", "date_to"} :
        DateOnly(key) => ByRow(key, FindColumn(FilterInput, DateCandidates))

\* The constraints of a FilterSpec: its (dimension, value) pairs but those
\* whose value is 'All'; none for an absent and for an empty spec.
Constraints(filters) ==
    { filters.items[i] : i \in { j \in DOMAIN filters.items : filters.items[j][2] # Str("All") } }

\* The FilterSpec has a dimension set to 'All'.
NamesAll(filters) == \E i \in DOMAIN filters.items : filters.items[i][2] = Str("All")

\* C20 as stated (one key for FilterSpecs that mean the same): for one
\* operation name, two FilterSpecs with the same constraints get the same cache
\* key: the same pairs in another key order, an absent spec and an empty one, a
\* dimension set to 'All' and that dimension absent.
C20_Original ==
    last.op = "_get_cache_key" =>
        \A filters \in FilterSpecs :
            Constraints(filters) = Constraints(last.arg[2]) =>
                GetCacheKey(last.arg[1], filters) = last.ret

\* The same for the FilterSpecs without an 'All': key order, and absent or empty.
C20_OrderAndEmpty ==
    (last.op = "_get_cache_key" /\ ~NamesAll(last.arg[2])) =>
        \A filters \in FilterSpecs :
            (~NamesAll(filters) /\ Constraints(filters) = Constraints(last.arg[2])) =>
                GetCacheKey(last.arg[1], filters) = last.ret

\* get_summary has computed its KPI mapping.
Summarised == last.op = "get_summary" /\ last.out = "stored"

\* The rows of a working frame that survive the FilterSpec get_summary was called with.
Surviving(df) == ApplyFilters(df, OrEmpty(last.arg))

\* The four quotients of the mapping ret, from the filtered totals: the quotient
\* where its denominator is positive, 0 where it is zero; zeroToo says what a
\* negative premium gives: 0 as well, or the quotient.
Quotients(ret, premium, amount, policies, claims, zeroToo) ==
    /\ ret.lossRatio = IF premium > 0 \/ (premium < 0 /\ ~zeroToo)
                       THEN RoundDiv(amount * 1000, premium) ELSE 0
    /\ ret.claimRate = IF policies > 0 THEN RoundDiv(ret.policiesWithClaims * 1000, policies) ELSE 0
    /\ ret.avgPremium = IF policies > 0 THEN RoundDiv(premium * 100, policies) ELSE 0
    /\ ret.avgClaimCost = IF claims > 0 THEN RoundDiv(amount * 100, claims) ELSE 0

\* C21 as stated (zero guards): lossRatio is 0 when the filtered premium is 0,
\* claimRate and avgPremium are 0 when no policy survives, avgClaimCost is 0
\* when no claim survives, and otherwise each is its quotient.
C21_Original ==
    Summarised =>
        Quotients(last.ret, SumIfCol(Surviving(sales_df), "Gross Premium"),
                  SumIfCol(Surviving(claims_df), "Total Auth Amount"),
                  Len(Surviving(sales_df).rows), Len(Surviving(claims_df).rows), FALSE)

\* C21 (zero guards): get_summary divides by no zero; lossRatio is 0 when the
\* filtered premium is zero or negative, claimRate and avgPremium are 0 when no
\* policy survives, avgClaimCost is 0 when no claim survives, and otherwise
\* each is its quotient.
C21_ZeroGuards ==
    Summarised =>
        Quotients(last.ret, SumIfCol(Surviving(sales_df), "Gross Premium"),
                  SumIfCol(Surviving(claims_df), "Total Auth Amount"),
                  Len(Surviving(sales_df).rows), Len(Surviving(claims_df).rows), TRUE)

\* A summary of policies whose premium is 0 in all, with a claims amount above 0.
C21_Witness ==
    /\ Summarised
    /\ last.ret.totalPolicies > 0
    /\ last.ret.totalPremium = 0
    /\ last.ret.totalClaimsAmount > 0
    /\ last.ret.lossRatio = 0

\* A summary for which no policy and no claim survives.
C21_WitnessNone ==
    /\ Summarised
    /\ last.ret.totalPolicies = 0
    /\ last.ret.totalClaims = 0
    /\ ~Falsy(last.arg)

\* get_raw_data has returned a page of a loaded table.
Paged == last.op = "get_raw_data" /\ last.out = "returned"

\* The filtered, sorted table of the call of get_raw_data with arguments q.
RawTable(q) == SortValues(ApplyFilters(RawFrame(q.table), OrEmpty(q.filters)), q.sort_by, q.sort_dir)

\* ceil(total / limit): the least n with n * limit >= total.
CeilDiv(total, limit) == CHOOSE n \in 0..total : n * limit >= total /\ \A m \in 0..(n - 1) : m * limit < total

\* The dict ret is the page of rows rws that the call with page size limit and
\* page number page is to return.
IsPage(ret, rws, page, limit) ==
    /\ ret.total = Len(rws)
    /\ ret.pages = IF CeilDiv(Len(rws), limit) < 1 THEN 1 ELSE CeilDiv(Len(rws), limit)
    /\ ret.page = IF page < 1 THEN 1 ELSE IF page > ret.pages THEN ret.pages ELSE page
    /\ Len(ret.rows) = (IF ret.page * limit < Len(rws) THEN ret.page * limit ELSE Len(rws))
                          - (ret.page - 1) * limit
    /\ \A k \in DOMAIN ret.rows : ret.rows[k] = rws[(ret.page - 1) * limit + k]
    /\ ret.page < ret.pages => Len(ret.rows) = limit

\* Row k of rws is on exactly one of the pages 1..pages the call with
\* arguments q returns, at its place.
OnOnePage(q, rws, pages, k) ==
    /\ \E p \in 1..pages :
          \E i \in DOMAIN RawData(RawFrame(q.table), [q EXCEPT !.page = p]).ret.rows :
              (p - 1) * q.limit + i = k
    /\ \A p \in 1..pages :
          \A i \in DOMAIN RawData(RawFrame(q.table), [q EXCEPT !.page = p]).ret.rows :
              ((p - 1) * q.limit + i = k) <=>
                  (RawData(RawFrame(q.table), [q EXCEPT !.page = p]).ret.rows[i] = rws[k])

\* C22 (pagination): for T surviving rows and page size L >= 1, get_raw_data
\* reports ceil(T/L) pages, at least 1, and the requested page clamped into
\* 1..pages, and returns the rows (page-1)*L+1 .. min(page*L, T) of the
\* filtered, sorted table; every page before the last has L rows and the pages
\* 1..pages hold every surviving row exactly once.
C22_Pagination ==
    Paged =>
        /\ IsPage(last.ret, RawTable(last.arg).rows, last.arg.page, last.arg.limit)
        /\ \A k \in DOMAIN RawTable(last.arg).rows :
              OnOnePage(last.arg, RawTable(last.arg).rows, last.ret.pages, k)

\* A page beyond the last was asked for, of a sorted table of three rows in
\* pages of two: the second page, of one row, came back.
C22_Witness ==
    /\ Paged
    /\ last.arg.page = 4
    /\ last.arg.sort_by # ""
    /\ last.ret.total = 3
    /\ last.ret.pages = 2
    /\ last.ret.page = 2
    /\ Len(last.ret.rows) = 1

\* C23 as stated (no row id in the raw view): no row record get_raw_data
\* returns has a '_row_id' field, and the list of columns returned does not
\* name it.
C23_Original ==
    Paged =>
        /\ \A k \in DOMAIN last.ret.rows : "_row_id" \notin DOMAIN last.ret.rows[k]
        /\ \A c \in DOMAIN last.ret.columns : last.ret.columns[c] # "_row_id"

\* The list of columns get_raw_data returns does not name '_row_id'.
C23_ColumnsOnly ==
    Paged => \A c \in DOMAIN last.ret.columns : last.ret.columns[c] # "_row_id"

\* C24 as stated (the summary counts dealers and makes): the KPI mapping
\* get_summary returns for a loaded session has a distinct-dealer count and a
\* distinct-make count, so that a consumer reading 'uniqueDealers' finds it.
C24_Original ==
    Summarised => {"uniqueDealers", "uniqueMakes"} \subseteq DOMAIN last.ret

\* The mapping has the distinct-make count: the number of distinct makes of the
\* surviving sales rows, 0 without a 'Make' column.
C24_MakesOnly ==
    Summarised =>
        /\ "uniqueMakes" \in DOMAIN last.ret
        /\ last.ret.uniqueMakes =
              IF HasCol(sales_df, "Make")
              THEN Cardinality(UniqueCol(Surviving(sales_df).rows, "Make")) ELSE 0

\* The breakdown by dealer or by product has computed its records.
BrokenDown(method_name) == last.op = method_name /\ last.out = "stored"

\* Record rec has the claim metrics, and its lossRatio and claimRate are the
\* quotients for the group's premium and number of policies, 0 where the
\* premium, respectively the number, is not positive.
HasClaimMetrics(rec, premium, policies) ==
    /\ {"claimsCount", "totalClaimAmount", "lossRatio", "claimRate"} \subseteq DOMAIN rec
    /\ rec.lossRatio = IF premium > 0 THEN RoundDiv(rec.totalClaimAmount * 1000, premium) ELSE 0
    /\ rec.claimRate = IF policies > 0 THEN RoundDiv(rec.claimsCount * 1000, policies) ELSE 0

\* The records of get_sales_dealers carry the claim metrics.
C25_Dealers ==
    BrokenDown("get_sales_dealers") =>
        \A i \in DOMAIN last.ret :
            HasClaimMetrics(last.ret[i], last.ret[i].premium, last.ret[i].policies)

\* C25 as stated (claim metrics in both breakdowns): every record of
\* get_sales_dealers and every record of get_sales_products carries the claim
\* metrics joined from the merged view and a lossRatio and a claimRate of its
\* group, each 0 where its denominator is.
C25_Original ==
    /\ C25_Dealers
    /\ BrokenDown("get_sales_products") =>
          \A i \in DOMAIN last.ret :
              HasClaimMetrics(last.ret[i], last.ret[i].premium, last.ret[i].count)

\* C26 (what reset_data returns): a reset of a loaded session returns success
\* and, as its count of reverted changes, the length the change log had when it
\* was called, which is the number of edits accepted since the latest load or
\* reset; a reset before any load returns a failure and changes no state.
C26_ResetCount ==
    [][last'.op = "reset_data" =>
          IF original_sales_df.isNone
          THEN /\ last'.out = "failure"
               /\ ~last'.ret.success
               /\ UNCHANGED <<store, query_cache, metrics_dirty>>
          ELSE /\ last'.out = "success"
               /\ last'.ret.success
               /\ last'.ret.changesReverted = Len(change_log)
               /\ change_log' = << >>]_vars

\* A reset has reverted exactly one accepted edit.
C26_Witness ==
    /\ last.op = "reset_data"
    /\ last.out = "success"
    /\ last.ret.changesReverted = 1

\* A reset before any load has returned its failure.
C26_WitnessUnloaded ==
    /\ last.op = "reset_data"
    /\ last.out = "failure"
    /\ sales_df.isNone

\* get_insights has returned a list it built or found in its cache.
Advised == last.op = "get_insights" /\ last.out \in {"stored", "hit"}

\* The filtered monthly sales series of the call that returned last.
Series == SalesMonthlyOf(ApplyFilters(sales_df, OrEmpty(last.arg))).ret

\* The forecast records of a list of insights.
Forecasts(ret) == SelectSeq(ret, LAMBDA r : r.type = "forecast")

\* The whole number nearest to n / d for d # 0, an exact half to the even one.
Nearest(n, d) ==
    IF d > 0 THEN RoundHalfEven(n, d) ELSE RoundHalfEven(0 - n, 0 - d)

\* last * (1 + mean of the growth rates of the transitions a -> b and b -> last
\* that are not skipped), to the nearest whole number.
Projected(a, b, c, skipFirst, skipSecond) ==
    CASE skipFirst /\ skipSecond   -> c
      [] skipFirst /\ ~skipSecond  -> Nearest(c * c, b)
      [] ~skipFirst /\ skipSecond  -> Nearest(c * b, a)
      [] OTHER -> Nearest(c * (2 * a * b + (b - a) * b + (c - b) * a), 2 * a * b)

\* The premiums of the last three periods of a series.
LastThree(sr) == <<sr[Len(sr) - 2].premium, sr[Len(sr) - 1].premium, sr[Len(sr)].premium>>

\* C27 as stated: a forecast exactly when the series has at least 3 periods, the
\* forecast being the last premium times (1 + the mean growth of the last two
\* transitions), a transition skipped when its prior premium is zero.
C27_Original ==
    Advised =>
      /\ Len(Forecasts(last.ret)) = IF Len(Series) >= 3 THEN 1 ELSE 0
      /\ Len(Series) >= 3 =>
           Forecasts(last.ret)[1].metric =
             Projected(LastThree(Series)[1], LastThree(Series)[2], LastThree(Series)[3],
                       LastThree(Series)[1] = 0, LastThree(Series)[2] = 0)

\* C27 (forecast): get_insights emits one forecast record exactly when the
\* filtered monthly series has at least 3 periods; the forecast is the last
\* period's premium times (1 + the mean growth rate of the last two
\* transitions), where a transition whose prior-month premium is zero or
\* negative is skipped, and it is the last period's premium when both are.
C27_Forecast ==
    Advised =>
      /\ Len(Forecasts(last.ret)) = IF Len(Series) >= 3 THEN 1 ELSE 0
      /\ Len(Series) >= 3 =>
           /\ Forecasts(last.ret)[1] = last.ret[Len(last.ret)]
           /\ Forecasts(last.ret)[1].metric =
                Projected(LastThree(Series)[1], LastThree(Series)[2], LastThree(Series)[3],
                          LastThree(Series)[1] <= 0, LastThree(Series)[2] <= 0)

\* A forecast from four periods whose last two transitions both count and
\* whose first transition, left out, would have changed it.
C27_Witness ==
    /\ Advised
    /\ Len(Series) = 4
    /\ LastThree(Series) = <<10, 20, 10>>
    /\ Series[1].premium = 20
    /\ Forecasts(last.ret)[1].metric = 12

\* A forecast after a month of refunds: the transition from it is skipped.
C27_WitnessNegative ==
    /\ Advised
    /\ Len(Series) = 3
    /\ LastThree(Series) = <<-10, 20, 20>>
    /\ Forecasts(last.ret)[1].metric = 20

\* Both transitions skipped, and a filter that leaves too few periods.
C27_WitnessSkipped ==
    /\ Advised
    /\ Len(Series) = 3
    /\ LastThree(Series) = <<0, 0, 10>>
    /\ Forecasts(last.ret)[1].metric = 10

C27_WitnessTooFew ==
    /\ Advised
    /\ ~last.arg.isNone
    /\ Len(Series) = 2
    /\ Len(sales_df.rows) = 4
    /\ Forecasts(last.ret) = << >>

\* The frame df with new_value written into the cell (row_id, column).
Written(df, row_id, column, new_value) ==
    [df EXCEPT !.rows = [i \in DOMAIN df.rows |->
                           IF df.rows[i]["_row_id"] = Num(row_id)
                           THEN [df.rows[i] EXCEPT ![column] = new_value]
                           ELSE df.rows[i]]]

\* One entry replayed on the pair T of a sales and a claims table: written into
\* the table the entry names, or, for any other name, into the table elseTable
\* says ("none": into neither).
ReplayOne(T, e, elseTable) ==
    [sales  |-> IF e.table = "sales"
                THEN Written(T.sales, e.row_id, e.column, e.new_value) ELSE T.sales,
     claims |-> IF e.table = "claims" \/ (e.table # "sales" /\ elseTable = "claims")
                THEN Written(T.claims, e.row_id, e.column, e.new_value) ELSE T.claims]

RECURSIVE Replayed(_, _)
\* The first n entries of the change log replayed, in order, on copies of the
\* original tables.
Replayed(n, elseTable) ==
    IF n = 0 THEN [sales |-> original_sales_df, claims |-> original_claims_df]
    ELSE ReplayOne(Replayed(n - 1, elseTable), change_log[n], elseTable)

\* The replay of the whole log gives the working tables, and each entry's
\* old_value is what its cell held in the replay just before it (a missing
\* value being logged as None).
ReplayReproduces(elseTable) ==
    ~sales_df.isNone =>
      /\ Replayed(Len(change_log), elseTable) = [sales |-> sales_df, claims |-> claims_df]
      /\ \A n \in DOMAIN change_log :
           change_log[n].old_value =
             Serialize(Cell(IF change_log[n].table = "sales"
                            THEN Replayed(n - 1, elseTable).sales
                            ELSE Replayed(n - 1, elseTable).claims,
                            change_log[n].row_id, change_log[n].column))

\* C28 as stated: at every point after a load, replaying the change log in
\* order on copies of the original tables, each entry written into the table it
\* names, reproduces the working tables, and each entry's old_value is the value
\* its cell held just before the entry was applied.
C28_Original == ReplayReproduces("none")

\* The same with an entry that names neither table replayed on the claims
\* table, where update_cell wrote it.
C28_AsApplied == ReplayReproduces("claims")

\* Two entries in the log, one for each table.
C28_Witness ==
    /\ Len(change_log) = 2
    /\ change_log[1].table # change_log[2].table
    /\ sales_df # original_sales_df
    /\ claims_df # original_claims_df

\* C29 as stated: for every working state and every FilterSpec, free-text
\* search included, get_summary returns policiesWithClaims <= totalPolicies and
\* a claimRate from 0 to 100 (in tenths of a percent: 0 to 1000).
C29_Original ==
    Summarised =>
      /\ last.ret.policiesWithClaims <= last.ret.totalPolicies
      /\ last.ret.claimRate \in 0..1000

\* The FilterSpec has no search term.
NoSearch(filters) == ~HasKey(OrEmpty(filters), "search")

\* The same for the FilterSpecs without a search term: the merged view keeps
\* every column of the sales table, and the other dimensions read only those.
C29_WithoutSearch ==
    (Summarised /\ NoSearch(last.arg)) =>
      /\ last.ret.policiesWithClaims <= last.ret.totalPolicies
      /\ last.ret.claimRate \in 0..1000
      /\ [r \in DOMAIN Surviving(merged_df).rows |-> Surviving(merged_df).rows[r]["_row_id"]]
           = [r \in DOMAIN Surviving(sales_df).rows |-> Surviving(sales_df).rows[r]["_row_id"]]

\* A search term found in a claim column of the merged view only: more policies
\* with claims than policies.
C29_WitnessRate ==
    /\ Summarised
    /\ last.ret.totalPolicies = 1
    /\ last.ret.policiesWithClaims = 2
    /\ last.ret.claimRate = 2000

\* The step is a call of update_cell or of bulk_update with this table argument.
EditOf(table) == last'.op \in {"update_cell", "bulk_update"} /\ last'.arg[1] = table

\* C30 as stated: update_cell changes only the table its table argument names:
\* a call naming 'sales' never changes the claims working table, a call naming
\* 'claims' never changes the sales working table, and a call naming neither
\* changes no working table, appends no change-log entry and does not clear the
\* cache.
C30_Original ==
    [][/\ EditOf("sales") => claims_df' = claims_df
       /\ EditOf("claims") => sales_df' = sales_df
       /\ (last'.op = "update_cell" /\ last'.arg[1] \notin {"sales", "claims"}) =>
            /\ sales_df' = sales_df
            /\ claims_df' = claims_df
            /\ change_log' = change_log
            /\ query_cache' = query_cache]_vars

\* The two halves about the names 'sales' and 'claims', for single and bulk
\* edits; an edit under any other name leaves the sales table as it is.
C30_NamedTables ==
    [][/\ EditOf("sales") => claims_df' = claims_df
       /\ EditOf("claims") => sales_df' = sales_df
       /\ (last'.op \in {"update_cell", "bulk_update"} /\ last'.arg[1] # "sales") =>
            sales_df' = sales_df]_vars

\* An accepted edit under a name that is neither table's has changed the claims
\* table.
C30_WitnessOther ==
    /\ AcceptedUpdate(last)
    /\ last.arg[1] = "other"
    /\ claims_df # original_claims_df
    /\ Len(change_log) > 0

\* The columns of each table that the validator keeps non-negative.
Monetary(table) ==
    IF table = "sales" THEN {"Gross Premium", "Risk Premium"}
    ELSE {"Total Auth Amount", "Labor", "Parts"}

\* Every cell of the table's monetary columns holds a non-negative number.
NonNegative(df, table) ==
    \A i \in DOMAIN df.rows : \A c \in Monetary(table) \cap DOMAIN df.rows[i] :
       df.rows[i][c].k = "num" /\ df.rows[i][c].n >= 0

\* Every value of the monetary columns was non-negative at load.
NonNegativeAtLoad ==
    /\ ~original_sales_df.isNone
    /\ NonNegative(original_sales_df, "sales")
    /\ NonNegative(original_claims_df, "claims")

\* Every status cell of the frame that differs from the loaded one is legal.
StatusesLegal(df, original) ==
    \A i \in DOMAIN df.rows :
       ("Claim Status" \in DOMAIN df.rows[i]
          /\ df.rows[i]["Claim Status"] # original.rows[i]["Claim Status"]) =>
         /\ df.rows[i]["Claim Status"].k = "str"
         /\ df.rows[i]["Claim Status"].s \in {"Approved", "Rejected", "Reversed"}

\* C31 as stated: if the monetary columns were non-negative at load, then after
\* any sequence of update_cell and bulk_update calls they hold only
\* non-negative numbers, and every status cell an edit changed holds a legal
\* status.
C31_Original ==
    NonNegativeAtLoad =>
      /\ NonNegative(sales_df, "sales")
      /\ NonNegative(claims_df, "claims")
      /\ StatusesLegal(sales_df, original_sales_df)
      /\ StatusesLegal(claims_df, original_claims_df)

\* No entry of the log names another table than the two or has float('nan')
\* as its value.
PlainEdits ==
    \A n \in DOMAIN change_log :
       change_log[n].table \in {"sales", "claims"} /\ ~IsNa(change_log[n].new_value)

\* The statuses are legal after every sequence of edits, and the monetary
\* columns are non-negative after the edits that name one of the two tables
\* with a value that is a number.
C31_PlainEdits ==
    (~original_sales_df.isNone) =>
      /\ StatusesLegal(sales_df, original_sales_df)
      /\ StatusesLegal(claims_df, original_claims_df)
      /\ (NonNegativeAtLoad /\ PlainEdits) =>
            NonNegative(sales_df, "sales") /\ NonNegative(claims_df, "claims")

\* float('nan') accepted as a premium under the name 'sales'.
C31_WitnessNaN ==
    /\ NonNegativeAtLoad
    /\ AcceptedUpdate(last)
    /\ last.arg[1] = "sales"
    /\ Cell(sales_df, 0, "Gross Premium") = NaN

\* Accepted edits of a premium and of a status, all cells non-negative.
C31_WitnessPlain ==
    /\ NonNegativeAtLoad
    /\ PlainEdits
    /\ Len(change_log) = 2
    /\ HasCol(claims_df, "Claim Status")
    /\ Cell(sales_df, 0, "Gross Premium") = Num(7)
    /\ Cell(claims_df, 0, "Claim Status") = Str("Reversed")

\* The methods that return an aggregation.
Aggregations ==
    ReadMethods \cup {m[1] : m \in OtherReads} \cup {"get_insights"}

\* The call l returned the empty or failure result of its operation as a value.
EmptyResult(l) ==
    CASE l.op \in Aggregations -> l.out = "noData" /\ l.ret = << >>
      [] l.op = "get_raw_data" ->
           l.out = "noData" /\ l.ret.rows = << >> /\ l.ret.total = 0
      [] l.op = "update_cell" ->
           l.out = "failure" /\ ~l.ret.success /\ l.ret.error = "No data loaded"
      [] l.op = "bulk_update" ->
           /\ l.out # "raised"
           /\ \A i \in DOMAIN l.ret.results :
                 ~l.ret.results[i].success /\ l.ret.results[i].error = "No data loaded"
      [] l.op = "reset_data" ->
           l.out = "failure" /\ ~l.ret.success /\ l.ret.error = "No data loaded"
      [] l.op = "validate_data" -> l.out = "noData" /\ l.ret.status = "error"
      [] l.op = "export_data" -> l.out = "noData"
      [] l.op = "get_change_log" -> l.ret = << >>
      [] l.op = "get_data_summary_for_ai" -> l.out = "noData"
      [] OTHER -> TRUE

\* No working table, nothing in the cache, nothing in the change log.
NothingWritten ==
    /\ sales_df.isNone
    /\ claims_df.isNone
    /\ merged_df.isNone
    /\ query_cache = EmptyCache
    /\ change_log = << >>

\* C32 as stated: before the first successful load every operation returns its
\* empty or failure result as a value, raises nothing, and leaves the session
\* as it was: no working table, nothing in the cache or in the change log.
C32_Original == EmptyResult(last) /\ NothingWritten

\* The same while no load has raised after reading the sales sheet.
C32_NoSheetRead == original_sales_df.isNone => (EmptyResult(last) /\ NothingWritten)

\* The same as long as reset_data has not been called after such a load: the
\* other operations test the working tables, which are still None.
C32_UntilReset == sales_df.isNone => (EmptyResult(last) /\ NothingWritten)

\* reset_data has raised in a session no load has succeeded in, and left a
\* sales working table.
C32_WitnessReset ==
    /\ last.op = "reset_data"
    /\ last.out = "raised"
    /\ original_claims_df.isNone
    /\ ~sales_df.isNone

\* An edit refused, and an aggregation found empty, in the new session.
C32_WitnessEdit ==
    /\ original_sales_df.isNone
    /\ last.op = "bulk_update"
    /\ Len(last.ret.results) = 2

C32_WitnessInsights ==
    /\ original_sales_df.isNone
    /\ last.op = "get_insights"
    /\ last.out = "noData"

=============================================================================
